---- MODULE Spec2Model ----
(***************************************************************************)
(* D0010 flow-file import (meter_readings/management/commands/              *)
(* import_d0010.py) over the Django models of meter_readings/models.py.     *)
(*                                                                         *)
(* Text is modelled as sequences of one-character strings, so that          *)
(* str.strip, str.split, str.isdigit and len are computed and not assumed.  *)
(* The character "U+00B2" stands for SUPERSCRIPT TWO, a non-ASCII character *)
(* for which Python's str.isdigit() is True.                                *)
(***************************************************************************)
EXTENDS Integers, Sequences, FiniteSets, TLC

(***************************************************************************)
(* Bounds of the model.                                                     *)
(***************************************************************************)
\* physical lines read from one file
MaxLines == 4
\* import_file calls in one behaviour
MaxImports == 2

(***************************************************************************)
(* Python str operations.                                                   *)
(***************************************************************************)
AsciiDigits == {"0", "1", "2", "3", "4", "5", "6", "7", "8", "9"}

Whitespace == {" "}

\* str.isdigit() of one character: ASCII digits and other Unicode digits.
IsDigitChar(c) == c \in AsciiDigits \cup {"U+00B2"}

\* str.isdigit(): non-empty and every character a digit.
IsDigit(s) == Len(s) > 0 /\ \A i \in 1..Len(s) : IsDigitChar(s[i])

RECURSIVE LStrip(_)
LStrip(s) == IF s # <<>> /\ Head(s) \in Whitespace THEN LStrip(Tail(s)) ELSE s

RECURSIVE RStrip(_)
RStrip(s) ==
    IF s # <<>> /\ s[Len(s)] \in Whitespace
    THEN RStrip(SubSeq(s, 1, Len(s) - 1))
    ELSE s

\* str.strip()
Strip(s) == RStrip(LStrip(s))

\* str.split("|"): always at least one part.
RECURSIVE Split(_)
Split(s) ==
    IF \A i \in 1..Len(s) : s[i] # "|"
    THEN <<s>>
    ELSE LET k == CHOOSE i \in 1..Len(s) :
                      s[i] = "|" /\ \A j \in 1..(i - 1) : s[j] # "|"
         IN  <<SubSeq(s, 1, k - 1)>> \o Split(SubSeq(s, k + 1, Len(s)))

\* "|".join(fields): how the input lines below are written down.
RECURSIVE JoinPipe(_)
JoinPipe(fields) ==
    IF Len(fields) = 0 THEN <<>>
    ELSE IF Len(fields) = 1 THEN fields[1]
    ELSE fields[1] \o <<"|">> \o JoinPipe(Tail(fields))

\* Optional[str]: None is the empty tuple, a value v is <<v>>.
None == <<>>

Some(v) == <<v>>

\* Python truthiness of an Optional[str]: None and "" are falsy.
Truthy(o) == o # None /\ o[1] # <<>>

(***************************************************************************)
(* Field validators: reading date (datetime.strptime, pytz localize) and    *)
(* reading value (decimal.Decimal, DecimalField(12, 3)).                    *)
(***************************************************************************)
DigitSeq == <<"0", "1", "2", "3", "4", "5", "6", "7", "8", "9">>

DigitVal(c) == (CHOOSE i \in 1..10 : DigitSeq[i] = c) - 1

Num2(a, b) == 10 * DigitVal(a) + DigitVal(b)

IsLeap(y) == (y % 4 = 0 /\ y % 100 # 0) \/ y % 400 = 0

DaysInMonth(y, m) ==
    IF m = 2 THEN (IF IsLeap(y) THEN 29 ELSE 28)
    ELSE IF m \in {4, 6, 9, 11} THEN 30 ELSE 31

\* datetime.strptime(s, "%Y%m%d%H%M%S") for a string of DateLen characters:
\* every directive then takes its full width; %d alone also accepts a
\* space-padded day. Result: [ok, dt], dt = <<Y, M, D, h, m, s>>.
DateLen == 14

StrpTime(s) ==
    LET dig(i) == s[i] \in AsciiDigits
        dayPadded == s[7] = " " /\ dig(8) /\ s[8] # "0"
        shape == /\ \A i \in (1..6) \cup (9..14) : dig(i)
                 /\ (dig(7) /\ dig(8)) \/ dayPadded
    IN  IF ~shape THEN [ok |-> FALSE, dt |-> <<>>]
        ELSE LET Y  == 100 * Num2(s[1], s[2]) + Num2(s[3], s[4])
                 M  == Num2(s[5], s[6])
                 D  == IF dayPadded THEN DigitVal(s[8]) ELSE Num2(s[7], s[8])
                 h  == Num2(s[9], s[10])
                 mi == Num2(s[11], s[12])
                 se == Num2(s[13], s[14])
                 valid == /\ Y >= 1
                          /\ M \in 1..12
                          /\ D >= 1 /\ D <= DaysInMonth(Y, M)
                          /\ h <= 23 /\ mi <= 59 /\ se <= 59
             IN  IF valid THEN [ok |-> TRUE, dt |-> <<Y, M, D, h, mi, se>>]
                 ELSE [ok |-> FALSE, dt |-> <<>>]

\* Day of the week, 0 = Sunday.
DayOfWeek(y, m, d) ==
    LET t  == <<0, 3, 2, 5, 0, 3, 5, 1, 4, 6, 2, 4>>
        yy == IF m < 3 THEN y - 1 ELSE y
    IN  (yy + (yy \div 4) - (yy \div 100) + (yy \div 400) + t[m] + d) % 7

LastSunday(y, m) == 31 - DayOfWeek(y, m, 31)

\* LONDON_TZ.localize(naive) with pytz's default is_dst=False, for the years
\* of the current rule (last Sunday of March to last Sunday of October): the
\* UTC offset in hours. A time in the spring gap or in the repeated autumn
\* hour is given the standard offset 0.
LondonOffset(dt) ==
    LET md    == <<dt[2], dt[3], dt[4]>>
        start == <<3, LastSunday(dt[1], 3), 2>>
        end   == <<10, LastSunday(dt[1], 10), 1>>
        Before(a, b) == \/ a[1] < b[1]
                        \/ a[1] = b[1] /\ a[2] < b[2]
                        \/ a[1] = b[1] /\ a[2] = b[2] /\ a[3] < b[3]
    IN  IF ~Before(md, start) /\ Before(md, end) THEN 1 ELSE 0

\* An aware datetime: the naive value and its UTC offset.
Localize(dt) == [naive |-> dt, utcoffset |-> LondonOffset(dt)]

\* The instant a DateTimeField stores and compares under USE_TZ = True: the
\* aware value converted to UTC.
ToUtc(aware) ==
    LET dt == aware.naive
    IN  IF aware.utcoffset = 0 THEN dt
        ELSE IF dt[4] >= 1 THEN <<dt[1], dt[2], dt[3], dt[4] - 1, dt[5], dt[6]>>
        ELSE IF dt[3] > 1 THEN <<dt[1], dt[2], dt[3] - 1, 23, dt[5], dt[6]>>
        ELSE <<dt[1], dt[2] - 1, DaysInMonth(dt[1], dt[2] - 1), 23, dt[5], dt[6]>>

\* decimal.Decimal(s) on strings over digits, sign, "." and letters: an
\* optional sign, digits with at most one ".", at least one digit.
\* Result: [ok, neg, int, frac] with the digit sequences as written.
ParseDecimal(s) ==
    LET signed == s # <<>> /\ s[1] \in {"+", "-"}
        body   == IF signed THEN Tail(s) ELSE s
        dots   == {i \in 1..Len(body) : body[i] = "."}
        ok     == /\ Cardinality(dots) <= 1
                  /\ \A i \in (1..Len(body)) \ dots : body[i] \in AsciiDigits
                  /\ Len(body) > Cardinality(dots)
        k      == IF dots = {} THEN Len(body) + 1 ELSE CHOOSE i \in dots : TRUE
    IN  IF ~ok THEN [ok |-> FALSE, neg |-> FALSE, int |-> <<>>, frac |-> <<>>]
        ELSE [ok |-> TRUE, neg |-> signed /\ s[1] = "-",
              int |-> SubSeq(body, 1, k - 1),
              frac |-> SubSeq(body, k + 1, Len(body))]

RECURSIVE StripZeros(_)
StripZeros(d) == IF d # <<>> /\ Head(d) = "0" THEN StripZeros(Tail(d)) ELSE d

\* d + 1 on a digit sequence.
RECURSIVE Increment(_)
Increment(d) ==
    IF d = <<>> THEN <<"1">>
    ELSE LET n == Len(d)
         IN  IF d[n] = "9" THEN Increment(SubSeq(d, 1, n - 1)) \o <<"0">>
             ELSE SubSeq(d, 1, n - 1) \o <<DigitSeq[DigitVal(d[n]) + 2]>>

\* DecimalField(max_digits=12, decimal_places=3) preparing a value for the
\* database: quantize to DecimalPlaces places (ROUND_HALF_EVEN) under a
\* precision of MaxDigits digits; decimal.InvalidOperation when the result
\* needs more digits. Result: [ok, value], value = [neg, coeff] with coeff
\* the digits of the value in thousandths, leading zeros stripped.
MaxDigits == 12

DecimalPlaces == 3

AdaptDecimal(v) ==
    LET padded == v.frac \o [i \in 1..DecimalPlaces |-> "0"]
        kept   == v.int \o SubSeq(padded, 1, DecimalPlaces)
        rest   == SubSeq(v.frac, DecimalPlaces + 1, Len(v.frac))
        restNZ == \E i \in 2..Len(rest) : rest[i] # "0"
        odd    == DigitVal(kept[Len(kept)]) % 2 = 1
        up     == /\ rest # <<>>
                  /\ \/ DigitVal(rest[1]) > 5
                     \/ DigitVal(rest[1]) = 5 /\ (restNZ \/ odd)
        coeff  == StripZeros(IF up THEN Increment(kept) ELSE kept)
    IN  IF Len(coeff) > MaxDigits THEN [ok |-> FALSE, value |-> <<>>]
        ELSE [ok |-> TRUE, value |-> [neg |-> v.neg, coeff |-> coeff]]

\* int(s) for a string with s.isdigit(): the value; ValueError on a digit
\* that is not a decimal digit (ok = FALSE).
RECURSIVE IntOf(_)
IntOf(s) ==
    IF s = <<>> THEN [ok |-> TRUE, val |-> 0]
    ELSE LET init == IntOf(SubSeq(s, 1, Len(s) - 1))
             c    == s[Len(s)]
         IN  IF init.ok /\ c \in AsciiDigits
             THEN [ok |-> TRUE, val |-> 10 * init.val + DigitVal(c)]
             ELSE [ok |-> FALSE, val |-> 0]

(***************************************************************************)
(* Record parsers of Command. Each returns [ok, val, exc]: the value        *)
(* returned, or the class of the exception raised.                          *)
(***************************************************************************)
Returned(v) == [ok |-> TRUE, val |-> v, exc |-> "-"]

Raised(e) == [ok |-> FALSE, val |-> <<>>, exc |-> e]

\* Mutant: file_reference is read from field 2, the flow reference.
parse_header_FlowRef(parts) ==
    Returned([record_type    |-> parts[1],
              file_reference |-> IF Len(parts) > 2 THEN parts[3] ELSE <<>>,
              flow_reference |-> IF Len(parts) > 2 THEN parts[3] ELSE <<>>])

parse_header(parts) ==
    Returned([record_type    |-> parts[1],
              file_reference |-> IF Len(parts) > 1 THEN parts[2] ELSE <<>>,
              flow_reference |-> IF Len(parts) > 2 THEN parts[3] ELSE <<>>])

MpanLen == 13

parse_mpan_record(parts) ==
    IF Len(parts) < 2 THEN Raised("InvalidD0010FormatError")
    ELSE LET mpan == Strip(parts[2])
         IN  IF ~IsDigit(mpan) \/ Len(mpan) # MpanLen
             THEN Raised("InvalidMPANError")
             ELSE Returned(mpan)

DefaultMeterType == <<"S">>

parse_meter_record(parts) ==
    IF Len(parts) < 3 THEN Raised("InvalidD0010FormatError")
    ELSE LET serial_number == Strip(parts[2])
             meter_type    == IF Len(parts) > 2 THEN Strip(parts[3])
                              ELSE DefaultMeterType
         IN  IF serial_number = <<>> THEN Raised("InvalidD0010FormatError")
             ELSE Returned(<<serial_number, meter_type>>)

ReadingTypeActual == <<"A", "C", "T", "U", "A", "L">>

parse_reading_record(parts, mpan, meter_serial, meter_type) ==
    IF Len(parts) < 4 THEN Raised("InvalidD0010FormatError")
    ELSE LET register_id == Strip(parts[2])
             date_str    == Strip(parts[3])
             value_str   == Strip(parts[4])
             naive       == IF Len(date_str) = DateLen THEN StrpTime(date_str)
                            ELSE [ok |-> FALSE, dt |-> <<>>]
             value       == ParseDecimal(value_str)
         IN  IF ~naive.ok THEN Raised("ValueError")
             ELSE IF ~value.ok THEN Raised("ValueError")
             ELSE Returned([mpan          |-> mpan,
                            meter_serial  |-> meter_serial,
                            meter_type    |-> meter_type,
                            register_id   |-> register_id,
                            reading_date  |-> Localize(naive.dt),
                            reading_value |-> [neg  |-> value.neg,
                                               int  |-> value.int,
                                               frac |-> value.frac],
                            reading_type  |-> ReadingTypeActual])

parse_trailer(parts) ==
    LET counted == Len(parts) > 2 /\ IsDigit(parts[3])
        n       == IF counted THEN IntOf(parts[3]) ELSE [ok |-> TRUE, val |-> 0]
    IN  IF ~n.ok THEN Raised("ValueError")
        ELSE Returned([record_type    |-> parts[1],
                       file_reference |-> IF Len(parts) > 1 THEN Some(parts[2])
                                          ELSE None,
                       record_count   |-> n.val])

(***************************************************************************)
(* The store: one set of rows per model of meter_readings/models.py. Rows   *)
(* carry a surrogate id; uniqueness is what the code and the constraints    *)
(* make of it, not the representation.                                      *)
(***************************************************************************)
EmptyDb == [FlowFile |-> {}, MeterPoint |-> {}, Meter |-> {}, Reading |-> {}]

\* AutoField: the next primary key of a table.
NextId(rows) ==
    IF rows = {} THEN 1
    ELSE 1 + CHOOSE n \in {r.id : r \in rows} : \A r \in rows : r.id <= n

\* Mutant: the duplicate-file check never finds the file.
FlowFileExists_Never(d, filename) == FALSE

\* FlowFile.objects.filter(filename=filename).exists()
FlowFileExists(d, filename) == \E f \in d.FlowFile : f.filename = filename

\* Mutant: filename is not unique.
FlowFile_create_NotUnique(d, filename, file_reference, record_count) ==
    LET row == [id             |-> NextId(d.FlowFile),
                filename       |-> filename,
                file_reference |-> file_reference,
                record_count   |-> record_count]
    IN  [ok |-> TRUE, db |-> [d EXCEPT !.FlowFile = @ \cup {row}],
         obj |-> row, exc |-> "-"]

\* FlowFile.objects.create(...): IntegrityError on the unique filename.
FlowFile_create(d, filename, file_reference, record_count) ==
    IF \E f \in d.FlowFile : f.filename = filename
    THEN [ok |-> FALSE, db |-> d, obj |-> <<>>, exc |-> "IntegrityError"]
    ELSE LET row == [id             |-> NextId(d.FlowFile),
                     filename       |-> filename,
                     file_reference |-> file_reference,
                     record_count   |-> record_count]
         IN  [ok |-> TRUE, db |-> [d EXCEPT !.FlowFile = @ \cup {row}],
              obj |-> row, exc |-> "-"]

\* MeterPoint.objects.get_or_create(mpan=...)
MeterPoint_get_or_create(d, mpan) ==
    LET found == {r \in d.MeterPoint : r.mpan = mpan}
    IN  IF Cardinality(found) > 1
        THEN [ok |-> FALSE, db |-> d, obj |-> <<>>, created |-> FALSE,
              exc |-> "MultipleObjectsReturned"]
        ELSE IF found # {}
        THEN [ok |-> TRUE, db |-> d, obj |-> CHOOSE r \in found : TRUE,
              created |-> FALSE, exc |-> "-"]
        ELSE LET row == [id |-> NextId(d.MeterPoint), mpan |-> mpan]
             IN  [ok |-> TRUE, db |-> [d EXCEPT !.MeterPoint = @ \cup {row}],
                  obj |-> row, created |-> TRUE, exc |-> "-"]

\* Mutant: the Meter is looked up by serial_number alone.
Meter_get_or_create_BySerial(d, meter_point, serial_number, meter_type) ==
    LET found == {r \in d.Meter : r.serial_number = serial_number}
    IN  IF Cardinality(found) > 1
        THEN [ok |-> FALSE, db |-> d, obj |-> <<>>, created |-> FALSE,
              exc |-> "MultipleObjectsReturned"]
        ELSE IF found # {}
        THEN [ok |-> TRUE, db |-> d, obj |-> CHOOSE r \in found : TRUE,
              created |-> FALSE, exc |-> "-"]
        ELSE IF meter_type = None
        THEN [ok |-> FALSE, db |-> d, obj |-> <<>>, created |-> FALSE,
              exc |-> "IntegrityError"]
        ELSE LET row == [id            |-> NextId(d.Meter),
                         meter_point   |-> meter_point.id,
                         serial_number |-> serial_number,
                         meter_type    |-> meter_type[1]]
             IN  [ok |-> TRUE, db |-> [d EXCEPT !.Meter = @ \cup {row}],
                  obj |-> row, created |-> TRUE, exc |-> "-"]

\* Mutant: update_or_create in place of get_or_create. An existing Meter
\* takes the meter_type of the record.
Meter_get_or_create_Updates(d, meter_point, serial_number, meter_type) ==
    LET found == {r \in d.Meter : /\ r.meter_point = meter_point.id
                                  /\ r.serial_number = serial_number}
    IN  IF meter_type = None
        THEN [ok |-> FALSE, db |-> d, obj |-> <<>>, created |-> FALSE,
              exc |-> "IntegrityError"]
        ELSE IF found # {}
        THEN LET old == CHOOSE r \in found : TRUE
                 row == [old EXCEPT !.meter_type = meter_type[1]]
             IN  [ok |-> TRUE,
                  db |-> [d EXCEPT !.Meter = (@ \ {old}) \cup {row}],
                  obj |-> row, created |-> FALSE, exc |-> "-"]
        ELSE LET row == [id            |-> NextId(d.Meter),
                         meter_point   |-> meter_point.id,
                         serial_number |-> serial_number,
                         meter_type    |-> meter_type[1]]
             IN  [ok |-> TRUE, db |-> [d EXCEPT !.Meter = @ \cup {row}],
                  obj |-> row, created |-> TRUE, exc |-> "-"]

\* Meter.objects.get_or_create(meter_point=..., serial_number=...,
\* defaults={"meter_type": ...}); meter_type is NOT NULL.
Meter_get_or_create(d, meter_point, serial_number, meter_type) ==
    LET found == {r \in d.Meter : /\ r.meter_point = meter_point.id
                                  /\ r.serial_number = serial_number}
    IN  IF Cardinality(found) > 1
        THEN [ok |-> FALSE, db |-> d, obj |-> <<>>, created |-> FALSE,
              exc |-> "MultipleObjectsReturned"]
        ELSE IF found # {}
        THEN [ok |-> TRUE, db |-> d, obj |-> CHOOSE r \in found : TRUE,
              created |-> FALSE, exc |-> "-"]
        ELSE IF meter_type = None
        THEN [ok |-> FALSE, db |-> d, obj |-> <<>>, created |-> FALSE,
              exc |-> "IntegrityError"]
        ELSE LET row == [id            |-> NextId(d.Meter),
                         meter_point   |-> meter_point.id,
                         serial_number |-> serial_number,
                         meter_type    |-> meter_type[1]]
             IN  [ok |-> TRUE, db |-> [d EXCEPT !.Meter = @ \cup {row}],
                  obj |-> row, created |-> TRUE, exc |-> "-"]

\* Reading.clean(), which full_clean() calls: TRUE when it raises no
\* ValidationError, that is when the stored value is not below zero.
Reading_clean(reading_value) ==
    ~(reading_value.neg /\ \E i \in 1..Len(reading_value.coeff) :
                               reading_value.coeff[i] # "0")

\* Mutant: flow_file is passed as a lookup argument, not as a default. A
\* Reading of another file is then not found, and the insert breaks
\* unique_together (meter, register_id, reading_date).
Reading_get_or_create_ByFile(d, meter, register_id, reading_date, flow_file, reading_value, reading_type) ==
    LET found == {r \in d.Reading : /\ r.meter = meter.id
                                    /\ r.register_id = register_id
                                    /\ r.reading_date = ToUtc(reading_date)
                                    /\ r.flow_file = flow_file.id}
        taken == \E r \in d.Reading : /\ r.meter = meter.id
                                      /\ r.register_id = register_id
                                      /\ r.reading_date = ToUtc(reading_date)
        value == AdaptDecimal(reading_value)
    IN  IF found # {}
        THEN [ok |-> TRUE, db |-> d, obj |-> CHOOSE r \in found : TRUE,
              created |-> FALSE, exc |-> "-"]
        ELSE IF ~value.ok
        THEN [ok |-> FALSE, db |-> d, obj |-> <<>>, created |-> FALSE,
              exc |-> "InvalidOperation"]
        ELSE IF taken
        THEN [ok |-> FALSE, db |-> d, obj |-> <<>>, created |-> FALSE,
              exc |-> "IntegrityError"]
        ELSE LET row == [id            |-> NextId(d.Reading),
                         meter         |-> meter.id,
                         flow_file     |-> flow_file.id,
                         register_id   |-> register_id,
                         reading_date  |-> ToUtc(reading_date),
                         reading_value |-> value.value,
                         reading_type  |-> reading_type]
             IN  [ok |-> TRUE, db |-> [d EXCEPT !.Reading = @ \cup {row}],
                  obj |-> row, created |-> TRUE, exc |-> "-"]

\* Mutant: update_or_create in place of get_or_create. An existing Reading
\* takes the flow_file and the value of the file being imported.
Reading_get_or_create_Updates(d, meter, register_id, reading_date, flow_file, reading_value, reading_type) ==
    LET found == {r \in d.Reading : /\ r.meter = meter.id
                                    /\ r.register_id = register_id
                                    /\ r.reading_date = ToUtc(reading_date)}
        value == AdaptDecimal(reading_value)
    IN  IF ~value.ok
        THEN [ok |-> FALSE, db |-> d, obj |-> <<>>, created |-> FALSE,
              exc |-> "InvalidOperation"]
        ELSE IF found # {}
        THEN LET old == CHOOSE r \in found : TRUE
                 new == [old EXCEPT !.flow_file = flow_file.id,
                                    !.reading_value = value.value]
             IN  [ok |-> TRUE,
                  db |-> [d EXCEPT !.Reading = (@ \ {old}) \cup {new}],
                  obj |-> new, created |-> FALSE, exc |-> "-"]
        ELSE LET row == [id            |-> NextId(d.Reading),
                         meter         |-> meter.id,
                         flow_file     |-> flow_file.id,
                         register_id   |-> register_id,
                         reading_date  |-> ToUtc(reading_date),
                         reading_value |-> value.value,
                         reading_type  |-> reading_type]
             IN  [ok |-> TRUE, db |-> [d EXCEPT !.Reading = @ \cup {row}],
                  obj |-> row, created |-> TRUE, exc |-> "-"]

\* Reading.objects.get_or_create(meter=..., register_id=..., reading_date=...,
\* defaults={flow_file, reading_value, reading_type}). The defaults are used,
\* and the value prepared for its column, only when the row is created.
Reading_get_or_create(d, meter, register_id, reading_date, flow_file, reading_value, reading_type) ==
    LET found == {r \in d.Reading : /\ r.meter = meter.id
                                    /\ r.register_id = register_id
                                    /\ r.reading_date = ToUtc(reading_date)}
        value == AdaptDecimal(reading_value)
    IN  IF Cardinality(found) > 1
        THEN [ok |-> FALSE, db |-> d, obj |-> <<>>, created |-> FALSE,
              exc |-> "MultipleObjectsReturned"]
        ELSE IF found # {}
        THEN [ok |-> TRUE, db |-> d, obj |-> CHOOSE r \in found : TRUE,
              created |-> FALSE, exc |-> "-"]
        ELSE IF ~value.ok
        THEN [ok |-> FALSE, db |-> d, obj |-> <<>>, created |-> FALSE,
              exc |-> "InvalidOperation"]
        ELSE LET row == [id            |-> NextId(d.Reading),
                         meter         |-> meter.id,
                         flow_file     |-> flow_file.id,
                         register_id   |-> register_id,
                         reading_date  |-> ToUtc(reading_date),
                         reading_value |-> value.value,
                         reading_type  |-> reading_type]
             IN  [ok |-> TRUE, db |-> [d EXCEPT !.Reading = @ \cup {row}],
                  obj |-> row, created |-> TRUE, exc |-> "-"]

(***************************************************************************)
(* Command.save_file_data, run inside transaction.atomic(): the result is   *)
(* [ok, db, count, exc] with db the working copy of the transaction.        *)
(***************************************************************************)
\* The body of the loop over file_data["readings"] for one candidate.
SaveReading(d, flow_file, reading_data) ==
    LET mp == MeterPoint_get_or_create(d, reading_data.mpan)
    IN  IF ~mp.ok THEN [ok |-> FALSE, db |-> d, created |-> FALSE]
        ELSE
        LET m == Meter_get_or_create(mp.db, mp.obj, reading_data.meter_serial,
                                     reading_data.meter_type)
        IN  IF ~m.ok THEN [ok |-> FALSE, db |-> d, created |-> FALSE]
            ELSE
            LET r == Reading_get_or_create(m.db, m.obj,
                                           reading_data.register_id,
                                           reading_data.reading_date,
                                           flow_file,
                                           reading_data.reading_value,
                                           reading_data.reading_type)
            IN  IF ~r.ok THEN [ok |-> FALSE, db |-> d, created |-> FALSE]
                ELSE [ok |-> TRUE, db |-> r.db, created |-> r.created]

\* Mutant: the except clause logs the error and goes on with the next
\* candidate instead of raising.
RECURSIVE SaveReadings_SkipsFailed(_, _, _, _, _)
SaveReadings_SkipsFailed(d, flow_file, readings, i, imported_count) ==
    IF i > Len(readings)
    THEN [ok |-> TRUE, db |-> d, count |-> imported_count, exc |-> "-"]
    ELSE LET one == SaveReading(d, flow_file, readings[i])
         IN  IF ~one.ok
             THEN SaveReadings_SkipsFailed(d, flow_file, readings, i + 1,
                                           imported_count)
             ELSE SaveReadings_SkipsFailed(one.db, flow_file, readings, i + 1,
                                           IF one.created
                                           THEN imported_count + 1
                                           ELSE imported_count)

\* Mutant: imported_count is incremented for every candidate saved, created
\* or found.
RECURSIVE SaveReadings_CountsAll(_, _, _, _, _)
SaveReadings_CountsAll(d, flow_file, readings, i, imported_count) ==
    IF i > Len(readings)
    THEN [ok |-> TRUE, db |-> d, count |-> imported_count, exc |-> "-"]
    ELSE LET one == SaveReading(d, flow_file, readings[i])
         IN  IF ~one.ok
             THEN [ok |-> FALSE, db |-> d, count |-> imported_count,
                   exc |-> "CommandError"]
             ELSE SaveReadings_CountsAll(one.db, flow_file, readings, i + 1,
                                         imported_count + 1)

\* The loop from candidate i on; any exception becomes a CommandError.
RECURSIVE SaveReadings(_, _, _, _, _)
SaveReadings(d, flow_file, readings, i, imported_count) ==
    IF i > Len(readings)
    THEN [ok |-> TRUE, db |-> d, count |-> imported_count, exc |-> "-"]
    ELSE LET one == SaveReading(d, flow_file, readings[i])
         IN  IF ~one.ok
             THEN [ok |-> FALSE, db |-> d, count |-> imported_count,
                   exc |-> "CommandError"]
             ELSE SaveReadings(one.db, flow_file, readings, i + 1,
                               IF one.created THEN imported_count + 1
                               ELSE imported_count)

\* Mutant: record_count stays as created, without the update of the end.
save_file_data_KeepsZero(d, file_data, filename) ==
    LET created == FlowFile_create(d, filename,
                                   IF file_data.header # None
                                   THEN file_data.header[1].file_reference
                                   ELSE <<>>,
                                   0)
    IN  IF ~created.ok
        THEN [ok |-> FALSE, db |-> d, count |-> 0, exc |-> created.exc]
        ELSE SaveReadings(created.db, created.obj, file_data.readings, 1, 0)

\* Mutant: the update of the end writes record_count to every FlowFile.
save_file_data_UpdatesAll(d, file_data, filename) ==
    LET created == FlowFile_create(d, filename,
                                   IF file_data.header # None
                                   THEN file_data.header[1].file_reference
                                   ELSE <<>>,
                                   0)
    IN  IF ~created.ok
        THEN [ok |-> FALSE, db |-> d, count |-> 0, exc |-> created.exc]
        ELSE LET saved == SaveReadings(created.db, created.obj,
                                       file_data.readings, 1, 0)
             IN  IF ~saved.ok THEN saved
                 ELSE [saved EXCEPT !.db.FlowFile =
                          {[f EXCEPT !.record_count = saved.count] :
                               f \in saved.db.FlowFile}]

save_file_data(d, file_data, filename) ==
    LET created == FlowFile_create(d, filename,
                                   IF file_data.header # None
                                   THEN file_data.header[1].file_reference
                                   ELSE <<>>,
                                   0)
    IN  IF ~created.ok
        THEN [ok |-> FALSE, db |-> d, count |-> 0, exc |-> created.exc]
        ELSE LET saved == SaveReadings(created.db, created.obj,
                                       file_data.readings, 1, 0)
             IN  IF ~saved.ok THEN saved
                 ELSE [saved EXCEPT !.db.FlowFile =
                          {IF f.id = created.obj.id
                           THEN [f EXCEPT !.record_count = saved.count]
                           ELSE f : f \in saved.db.FlowFile}]

(***************************************************************************)
(* Inputs: paths and the lines a file may hold.                             *)
(***************************************************************************)
\* A path is its sequence of components; os.path.basename is the last one.
Basename(file_path) == file_path[Len(file_path)]

\* A path at which no file exists; its basename is that of an existing file.
MissingPath == <<"gone", "a.uff">>

ExistingPaths == {<<"in", "a.uff">>, <<"retry", "a.uff">>, <<"in", "b.uff">>}

\* The paths imported one after another.
Paths == {<<"in", "a.uff">>, <<"in", "b.uff">>, MissingPath}

\* The paths of a single import.
ParsePaths == ExistingPaths \cup {MissingPath}

\* os.path.exists(file_path)
PathExists(file_path) == file_path \in ExistingPaths

Rep(c, n) == [i \in 1..n |-> c]

TagZHV == <<"Z", "H", "V">>
TagZPT == <<"Z", "P", "T">>
TagZHD == <<"Z", "H", "D">>
Tag026 == <<"0", "2", "6">>
Tag028 == <<"0", "2", "8">>
Tag030 == <<"0", "3", "0">>

FileRef == <<"R", "1">>
FileRef2 == <<"R", "2">>
MpanA == <<"1", "2", "0", "0", "0", "2", "3", "3", "0", "5", "9", "6", "7">>
MpanB == <<"1", "2", "3", "4", "5", "6", "7", "8", "9", "0", "1", "2", "3">>
MpanShort == SubSeq(MpanB, 1, 12)
MpanAlpha == SubSeq(MpanB, 1, 12) \o <<"X">>
MpanPadded == <<" ">> \o MpanA
MpanSuper == Rep("U+00B2", 13)
Serial1 == <<"S", "N", "1">>
TypeS == <<"S">>
TypeD == <<"D">>
Reg01 == <<"0", "1">>
DateA == <<"2", "0", "1", "6", "0", "2", "2", "2", "0", "0", "0", "0", "0", "0">>
DateB == <<"2", "0", "1", "6", "0", "2", "2", "3", "0", "0", "0", "0", "0", "0">>
DateBad == <<"2", "0", "1", "6", "0", "2", "3", "0", "0", "0", "0", "0", "0", "0">>
DateShort == <<"B", "A", "D", "D", "A", "T", "E">>
Value1 == <<"1", "0", "0", ".", "5">>
Value2 == <<"2", "0", "0">>
ValueBad == <<"X">>
ValueBig == <<"1", "2", "3", "4", "5", "6", "7", "8", "9", "0">>
ValueNeg == <<"-", "5">>

LineBlank == <<" ">>
LineZHV == JoinPipe(<<TagZHV, FileRef, <<"D">> >>)
LineZHV2 == JoinPipe(<<TagZHV, FileRef2, FileRef>>)
LineZPT == JoinPipe(<<TagZPT, FileRef, <<"1">> >>)
LineZPTNoCount == JoinPipe(<<TagZPT, FileRef>>)
LineZPTAlpha == JoinPipe(<<TagZPT, FileRef, <<"X">> >>)
LineZPTSuper == JoinPipe(<<TagZPT, FileRef, <<"U+00B2">> >>)
LineZHD == JoinPipe(<<TagZHD, FileRef>>)
Line026A == JoinPipe(<<Tag026, MpanA, <<"V">> >>)
Line026B == JoinPipe(<<Tag026, MpanB>>)
Line026Short == JoinPipe(<<Tag026, MpanShort>>)
Line026Alpha == JoinPipe(<<Tag026, MpanAlpha>>)
Line026Padded == JoinPipe(<<Tag026, MpanPadded, <<"V">> >>)
Line026Super == JoinPipe(<<Tag026, MpanSuper>>)
Line026Bare == Tag026
Line028S == JoinPipe(<<Tag028, Serial1, TypeS, <<" ">> >>)
Line028D == JoinPipe(<<Tag028, Serial1, TypeD>>)
Line028NoType == JoinPipe(<<Tag028, Serial1>>)
Line028NoSerial == JoinPipe(<<Tag028, <<" ">>, TypeS>>)
Line030A == JoinPipe(<<Tag030, Reg01, DateA, Value1, <<>>, <<"T">> >>)
Line030A2 == JoinPipe(<<Tag030, Reg01, DateA, Value2>>)
Line030B == JoinPipe(<<Tag030, Reg01, DateB, Value1>>)
Line030BadDate == JoinPipe(<<Tag030, Reg01, DateBad, Value1>>)
Line030ShortDate == JoinPipe(<<Tag030, Reg01, DateShort, Value1>>)
Line030BadValue == JoinPipe(<<Tag030, Reg01, DateA, ValueBad>>)
Line030Big == JoinPipe(<<Tag030, Reg01, DateB, ValueBig>>)
Line030Neg == JoinPipe(<<Tag030, Reg01, DateB, ValueNeg>>)
Line030Bare == Tag030

\* The lines of the files imported one after another: valid records, one
\* value the store rejects, one line that fails to parse.
Lines ==
    {Line026A, Line026B, Line028S, Line028D,
     Line030A, Line030A2, Line030B, Line030Big, Line030BadDate}

\* The lines of the file of a single import: every shape of record.
ParseLines ==
    Lines \cup
    {LineBlank, LineZHV, LineZPT, LineZPTNoCount, LineZPTAlpha, LineZPTSuper,
     LineZHD, Line026Short, Line026Alpha, Line026Padded, Line026Super, Line026Bare,
     Line028NoType, Line028NoSerial,
     Line030ShortDate, Line030BadValue, Line030Neg, Line030Bare}

(***************************************************************************)
(* State.                                                                   *)
(***************************************************************************)
VARIABLES
    db,                     \* the committed store
    pc,                     \* "idle", "parsing" (in parse_d0010_file), "done"
    imports,                \* import_file calls made so far
    cur,                    \* arguments of the call in progress
    file_data,              \* parse_d0010_file: header, readings, trailer
    current_mpan,           \* parse_d0010_file: Optional[str]
    current_meter_serial,   \* parse_d0010_file: Optional[str]
    current_meter_type,     \* parse_d0010_file: Optional[str]
    line_num,               \* parse_d0010_file: lines read so far
    line,                   \* parse_d0010_file: the last line read, stripped
    outcome,                \* how the last finished call ended
    pre,                    \* the store when the last call was made
    total_imported,         \* handle: the sum of the counts returned so far
    racers,                 \* SpecRace: the import_file call of each process
    cleared,                \* what the last clear_all_data call returned
    response                \* FlowFileViewSet.upload: the upload and its answer

vars == <<db, pc, imports, cur, file_data, current_mpan, current_meter_serial,
          current_meter_type, line_num, line, outcome, pre, total_imported,
          racers, cleared, response>>

NoCall == [file_path |-> <<>>, filename |-> "", dry_run |-> FALSE]

NoFileData == [header |-> None, readings |-> <<>>, trailer |-> None]

NoOutcome ==
    [status |-> "none", exc |-> "-", count |-> 0, record_type |-> <<>>,
     raw_data |-> <<>>, line_number |-> 0, filename |-> "", cause |-> "-"]

\* No transaction is open. An open one holds the rows it has written and
\* not committed (own), the FlowFile it created, the index i of the
\* candidate it is saving, the call it is at ("point", "meter", "reading"),
\* the MeterPoint and the Meter it got for that candidate, and its count.
NoTx ==
    [own |-> [FlowFile |-> {}, MeterPoint |-> {}, Meter |-> {}, Reading |-> {}],
     flow_file |-> <<>>, i |-> 1, at |-> "point", point |-> <<>>,
     meter |-> <<>>, imported_count |-> 0]

\* A process of SpecRace or SpecTx that has not called import_file.
NoRacer == [pc |-> "none", file_path |-> <<>>, filename |-> "",
            lines |-> <<>>, file_data |-> NoFileData, outcome |-> NoOutcome,
            tx |-> NoTx]

\* No upload has been made. stage is "none", "written" (the temporary file
\* is written, the answer not given yet) or "answered"; call is the number
\* of import_file calls made before the upload.
NoResponse ==
    [name |-> "", call |-> 0, stage |-> "none", status |-> 0,
     flow_file |-> None]

\* import_file returned imported_count.
ReturnOutcome(n) == [NoOutcome EXCEPT !.status = "returned", !.count = n]

\* import_file raised an exception of class e.
RaiseOutcome(e, filename) ==
    [NoOutcome EXCEPT !.status = "raised", !.exc = e, !.filename = filename]

Init ==
    /\ db = EmptyDb
    /\ pc = "idle"
    /\ imports = 0
    /\ cur = NoCall
    /\ file_data = NoFileData
    /\ current_mpan = None
    /\ current_meter_serial = None
    /\ current_meter_type = None
    /\ line_num = 0
    /\ line = <<>>
    /\ outcome = NoOutcome
    /\ pre = EmptyDb
    /\ total_imported = 0
    /\ racers = [p \in {1, 2} |-> NoRacer]
    /\ cleared = None
    /\ response = NoResponse

\* import_file has been called MaxImports times at most.
CallAllowed == pc = "idle" /\ imports < MaxImports

(***************************************************************************)
(* Command.import_file up to the call of parse_d0010_file: the existence    *)
(* check, the duplicate-file check, and the locals of parse_d0010_file.     *)
(***************************************************************************)
ImportFileBegin(file_path, dry_run) ==
    LET filename == Basename(file_path)
    IN  /\ CallAllowed
        /\ imports' = imports + 1
        /\ pre' = db
        /\ cur' = [file_path |-> file_path, filename |-> filename,
                   dry_run |-> dry_run]
        /\ file_data' = NoFileData
        /\ current_mpan' = None
        /\ current_meter_serial' = None
        /\ current_meter_type' = None
        /\ line_num' = 0
        /\ line' = <<>>
        /\ UNCHANGED <<db, total_imported, racers, cleared, response>>
        /\ IF ~PathExists(file_path)
           THEN /\ outcome' = RaiseOutcome("CommandError", "")
                /\ pc' = "idle"
           ELSE IF FlowFileExists(db, filename)
           THEN /\ outcome' = RaiseOutcome("DuplicateFileError", filename)
                /\ pc' = "idle"
           ELSE /\ outcome' = NoOutcome
                /\ pc' = "parsing"

(***************************************************************************)
(* parse_d0010_file: the body of the try statement for one non-blank line,  *)
(* as a function of the locals st = [file_data, current_mpan,               *)
(* current_meter_serial, current_meter_type]. Result: [ok, st, exc].        *)
(***************************************************************************)
\* The guard of a 030 record.
HasContext(mpan, meter_serial) == Truthy(mpan) /\ Truthy(meter_serial)

\* Mutant: a 026 record sets current_mpan and keeps the meter of the MPAN
\* before it.
ParseRecord_KeepsMeter(st, parts) ==
    LET record_type == parts[1]
        Ok(t)   == [ok |-> TRUE, st |-> t, exc |-> "-"]
        Fail(e) == [ok |-> FALSE, st |-> st, exc |-> e]
    IN  IF record_type = TagZHV
        THEN Ok([st EXCEPT !.file_data.header = Some(parse_header(parts).val)])
        ELSE IF record_type = Tag026
        THEN LET m == parse_mpan_record(parts)
             IN  IF ~m.ok THEN Fail(m.exc)
                 ELSE Ok([st EXCEPT !.current_mpan = Some(m.val)])
        ELSE IF record_type = Tag028
        THEN LET m == parse_meter_record(parts)
             IN  IF ~m.ok THEN Fail(m.exc)
                 ELSE Ok([st EXCEPT !.current_meter_serial = Some(m.val[1]),
                                    !.current_meter_type = Some(m.val[2])])
        ELSE IF record_type = Tag030
        THEN IF ~HasContext(st.current_mpan, st.current_meter_serial)
             THEN Fail("ValueError")
             ELSE LET r == parse_reading_record(parts, st.current_mpan[1],
                                                st.current_meter_serial[1],
                                                st.current_meter_type)
                  IN  IF ~r.ok THEN Fail(r.exc)
                      ELSE Ok([st EXCEPT !.file_data.readings =
                                             Append(@, r.val)])
        ELSE IF record_type = TagZPT
        THEN LET t == parse_trailer(parts)
             IN  IF ~t.ok THEN Fail(t.exc)
                 ELSE Ok([st EXCEPT !.file_data.trailer = Some(t.val)])
        ELSE Ok(st)

\* Mutant: a 030 record ends the meter context it used.
ParseRecord_ReadingEndsMeter(st, parts) ==
    LET record_type == parts[1]
        Ok(t)   == [ok |-> TRUE, st |-> t, exc |-> "-"]
        Fail(e) == [ok |-> FALSE, st |-> st, exc |-> e]
    IN  IF record_type = TagZHV
        THEN Ok([st EXCEPT !.file_data.header = Some(parse_header(parts).val)])
        ELSE IF record_type = Tag026
        THEN LET m == parse_mpan_record(parts)
             IN  IF ~m.ok THEN Fail(m.exc)
                 ELSE Ok([st EXCEPT !.current_mpan = Some(m.val),
                                    !.current_meter_serial = None,
                                    !.current_meter_type = None])
        ELSE IF record_type = Tag028
        THEN LET m == parse_meter_record(parts)
             IN  IF ~m.ok THEN Fail(m.exc)
                 ELSE Ok([st EXCEPT !.current_meter_serial = Some(m.val[1]),
                                    !.current_meter_type = Some(m.val[2])])
        ELSE IF record_type = Tag030
        THEN IF ~HasContext(st.current_mpan, st.current_meter_serial)
             THEN Fail("ValueError")
             ELSE LET r == parse_reading_record(parts, st.current_mpan[1],
                                                st.current_meter_serial[1],
                                                st.current_meter_type)
                  IN  IF ~r.ok THEN Fail(r.exc)
                      ELSE Ok([st EXCEPT !.file_data.readings =
                                             Append(@, r.val),
                                         !.current_meter_serial = None,
                                         !.current_meter_type = None])
        ELSE IF record_type = TagZPT
        THEN LET t == parse_trailer(parts)
             IN  IF ~t.ok THEN Fail(t.exc)
                 ELSE Ok([st EXCEPT !.file_data.trailer = Some(t.val)])
        ELSE Ok(st)

\* Mutant: the chain of tag tests ends in an else branch that raises.
ParseRecord_UnknownTagFails(st, parts) ==
    LET record_type == parts[1]
        Ok(t)   == [ok |-> TRUE, st |-> t, exc |-> "-"]
        Fail(e) == [ok |-> FALSE, st |-> st, exc |-> e]
    IN  IF record_type = TagZHV
        THEN Ok([st EXCEPT !.file_data.header = Some(parse_header(parts).val)])
        ELSE IF record_type = Tag026
        THEN LET m == parse_mpan_record(parts)
             IN  IF ~m.ok THEN Fail(m.exc)
                 ELSE Ok([st EXCEPT !.current_mpan = Some(m.val),
                                    !.current_meter_serial = None,
                                    !.current_meter_type = None])
        ELSE IF record_type = Tag028
        THEN LET m == parse_meter_record(parts)
             IN  IF ~m.ok THEN Fail(m.exc)
                 ELSE Ok([st EXCEPT !.current_meter_serial = Some(m.val[1]),
                                    !.current_meter_type = Some(m.val[2])])
        ELSE IF record_type = Tag030
        THEN IF ~HasContext(st.current_mpan, st.current_meter_serial)
             THEN Fail("ValueError")
             ELSE LET r == parse_reading_record(parts, st.current_mpan[1],
                                                st.current_meter_serial[1],
                                                st.current_meter_type)
                  IN  IF ~r.ok THEN Fail(r.exc)
                      ELSE Ok([st EXCEPT !.file_data.readings =
                                             Append(@, r.val)])
        ELSE IF record_type = TagZPT
        THEN LET t == parse_trailer(parts)
             IN  IF ~t.ok THEN Fail(t.exc)
                 ELSE Ok([st EXCEPT !.file_data.trailer = Some(t.val)])
        ELSE Fail("ValueError")

ParseRecord(st, parts) ==
    LET record_type == parts[1]
        Ok(t)   == [ok |-> TRUE, st |-> t, exc |-> "-"]
        Fail(e) == [ok |-> FALSE, st |-> st, exc |-> e]
    IN  IF record_type = TagZHV
        THEN Ok([st EXCEPT !.file_data.header = Some(parse_header(parts).val)])
        ELSE IF record_type = Tag026
        THEN LET m == parse_mpan_record(parts)
             IN  IF ~m.ok THEN Fail(m.exc)
                 ELSE Ok([st EXCEPT !.current_mpan = Some(m.val),
                                    !.current_meter_serial = None,
                                    !.current_meter_type = None])
        ELSE IF record_type = Tag028
        THEN LET m == parse_meter_record(parts)
             IN  IF ~m.ok THEN Fail(m.exc)
                 ELSE Ok([st EXCEPT !.current_meter_serial = Some(m.val[1]),
                                    !.current_meter_type = Some(m.val[2])])
        ELSE IF record_type = Tag030
        THEN IF ~HasContext(st.current_mpan, st.current_meter_serial)
             THEN Fail("ValueError")
             ELSE LET r == parse_reading_record(parts, st.current_mpan[1],
                                                st.current_meter_serial[1],
                                                st.current_meter_type)
                  IN  IF ~r.ok THEN Fail(r.exc)
                      ELSE Ok([st EXCEPT !.file_data.readings =
                                             Append(@, r.val)])
        ELSE IF record_type = TagZPT
        THEN LET t == parse_trailer(parts)
             IN  IF ~t.ok THEN Fail(t.exc)
                 ELSE Ok([st EXCEPT !.file_data.trailer = Some(t.val)])
        ELSE Ok(st)

\* Mutant: handle does not catch the exception, which ends the batch.
ParseFail_EndsBatch(record_type, raw_data, cause) ==
    /\ outcome' = [RaiseOutcome("ParsingError", cur.filename)
                   EXCEPT !.record_type = record_type,
                          !.raw_data = raw_data,
                          !.line_number = line_num + 1,
                          !.cause = cause]
    /\ pc' = "done"
    /\ UNCHANGED <<db, file_data, current_mpan, current_meter_serial,
                   current_meter_type, total_imported>>

\* Mutant: the line number reported counts from 0.
ParseFail_ZeroBased(record_type, raw_data, cause) ==
    /\ outcome' = [RaiseOutcome("ParsingError", cur.filename)
                   EXCEPT !.record_type = record_type,
                          !.raw_data = raw_data,
                          !.line_number = line_num,
                          !.cause = cause]
    /\ pc' = "idle"
    /\ UNCHANGED <<db, file_data, current_mpan, current_meter_serial,
                   current_meter_type, total_imported>>

\* Mutant: the candidates parsed before the failing line are saved.
ParseFail_SavesParsed(record_type, raw_data, cause) ==
    /\ outcome' = [RaiseOutcome("ParsingError", cur.filename)
                   EXCEPT !.record_type = record_type,
                          !.raw_data = raw_data,
                          !.line_number = line_num + 1,
                          !.cause = cause]
    /\ pc' = "idle"
    /\ db' = IF file_data.readings = <<>> \/ cur.dry_run THEN db
             ELSE save_file_data(db, file_data, cur.filename).db
    /\ UNCHANGED <<file_data, current_mpan, current_meter_serial,
                   current_meter_type, total_imported>>

\* The except clause: the ParsingError that ends import_file.
ParseFail(record_type, raw_data, cause) ==
    /\ outcome' = [RaiseOutcome("ParsingError", cur.filename)
                   EXCEPT !.record_type = record_type,
                          !.raw_data = raw_data,
                          !.line_number = line_num + 1,
                          !.cause = cause]
    /\ pc' = "idle"
    /\ UNCHANGED <<db, file_data, current_mpan, current_meter_serial,
                   current_meter_type, total_imported>>

(***************************************************************************)
(* One iteration of the loop of parse_d0010_file over the lines of the      *)
(* file; the next line of the file is the input raw.                        *)
\* Mutant: a blank line ends the MPAN and meter context.
ParseLine_BlankResets(raw) ==
    /\ pc = "parsing"
    /\ line_num < MaxLines
    /\ line_num' = line_num + 1
    /\ line' = Strip(raw)
    /\ UNCHANGED <<imports, cur, pre, racers, cleared, response>>
    /\ LET st == [file_data            |-> file_data,
                    current_mpan         |-> current_mpan,
                    current_meter_serial |-> current_meter_serial,
                    current_meter_type   |-> current_meter_type]
       IN  IF line' = <<>>
           THEN /\ current_mpan' = None
                /\ current_meter_serial' = None
                /\ current_meter_type' = None
                /\ UNCHANGED <<db, pc, outcome, file_data, total_imported>>
           ELSE LET parts == Split(line')
                    Parsed(r) ==
                        IF r.ok
                        THEN /\ file_data' = r.st.file_data
                             /\ current_mpan' = r.st.current_mpan
                             /\ current_meter_serial' =
                                    r.st.current_meter_serial
                             /\ current_meter_type' = r.st.current_meter_type
                             /\ UNCHANGED <<db, pc, outcome, total_imported>>
                        ELSE ParseFail(parts[1], line', r.exc)
                IN  Parsed(ParseRecord(st, parts))

(***************************************************************************)
ParseLine(raw) ==
    /\ pc = "parsing"
    /\ line_num < MaxLines
    /\ line_num' = line_num + 1
    /\ line' = Strip(raw)
    /\ UNCHANGED <<imports, cur, pre, racers, cleared, response>>
    /\ LET st == [file_data            |-> file_data,
                    current_mpan         |-> current_mpan,
                    current_meter_serial |-> current_meter_serial,
                    current_meter_type   |-> current_meter_type]
       IN  IF line' = <<>>
           THEN UNCHANGED <<db, pc, outcome, file_data, current_mpan,
                            current_meter_serial, current_meter_type,
                            total_imported>>
           ELSE LET parts == Split(line')
                    Parsed(r) ==
                        IF r.ok
                        THEN /\ file_data' = r.st.file_data
                             /\ current_mpan' = r.st.current_mpan
                             /\ current_meter_serial' =
                                    r.st.current_meter_serial
                             /\ current_meter_type' = r.st.current_meter_type
                             /\ UNCHANGED <<db, pc, outcome, total_imported>>
                        ELSE ParseFail(parts[1], line', r.exc)
                IN  Parsed(ParseRecord(st, parts))

(***************************************************************************)
(* End of the file: the check for readings that ends parse_d0010_file, then *)
(* the rest of import_file: the dry-run return, or save_file_data inside    *)
(* transaction.atomic(), committed on return and rolled back on exception.  *)
(***************************************************************************)
\* Mutant: import_file does not look at dry_run.
ImportFileEnd_IgnoresDryRun ==
    /\ pc = "parsing"
    /\ pc' = "idle"
    /\ UNCHANGED <<imports, cur, pre, file_data, current_mpan,
                   current_meter_serial, current_meter_type, line_num, line,
                   racers, cleared, response>>
    /\ IF file_data.readings = <<>>
       THEN /\ outcome' = RaiseOutcome("InvalidD0010FormatError", cur.filename)
            /\ UNCHANGED <<db, total_imported>>
       ELSE LET saved == save_file_data(db, file_data, cur.filename)
            IN  IF saved.ok
                THEN /\ db' = saved.db
                     /\ outcome' = ReturnOutcome(saved.count)
                     /\ total_imported' = total_imported + saved.count
                ELSE /\ UNCHANGED <<db, total_imported>>
                     /\ outcome' = RaiseOutcome(saved.exc, "")

\* Mutant: a dry run saves the file in a transaction it rolls back, and
\* returns the count of the Readings that would be new.
ImportFileEnd_DryRunCountsNew ==
    /\ pc = "parsing"
    /\ pc' = "idle"
    /\ UNCHANGED <<imports, cur, pre, file_data, current_mpan,
                   current_meter_serial, current_meter_type, line_num, line,
                   racers, cleared, response>>
    /\ IF file_data.readings = <<>>
       THEN /\ outcome' = RaiseOutcome("InvalidD0010FormatError", cur.filename)
            /\ UNCHANGED <<db, total_imported>>
       ELSE LET saved == save_file_data(db, file_data, cur.filename)
            IN  IF saved.ok
                THEN /\ db' = IF cur.dry_run THEN db ELSE saved.db
                     /\ outcome' = ReturnOutcome(saved.count)
                     /\ total_imported' = total_imported + saved.count
                ELSE /\ UNCHANGED <<db, total_imported>>
                     /\ outcome' = RaiseOutcome(saved.exc, "")

\* Mutant: parse_d0010_file returns file_data without looking at readings.
ImportFileEnd_NoReadingsCheck ==
    /\ pc = "parsing"
    /\ pc' = "idle"
    /\ UNCHANGED <<imports, cur, pre, file_data, current_mpan,
                   current_meter_serial, current_meter_type, line_num, line,
                   racers, cleared, response>>
    /\ IF cur.dry_run
       THEN /\ outcome' = ReturnOutcome(Len(file_data.readings))
            /\ total_imported' = total_imported + Len(file_data.readings)
            /\ UNCHANGED db
       ELSE LET saved == save_file_data(db, file_data, cur.filename)
            IN  IF saved.ok
                THEN /\ db' = saved.db
                     /\ outcome' = ReturnOutcome(saved.count)
                     /\ total_imported' = total_imported + saved.count
                ELSE /\ UNCHANGED <<db, total_imported>>
                     /\ outcome' = RaiseOutcome(saved.exc, "")

\* Mutant: save_file_data runs outside transaction.atomic(); what it wrote
\* before an exception stays.
ImportFileEnd_NoRollback ==
    /\ pc = "parsing"
    /\ pc' = "idle"
    /\ UNCHANGED <<imports, cur, pre, file_data, current_mpan,
                   current_meter_serial, current_meter_type, line_num, line,
                   racers, cleared, response>>
    /\ IF file_data.readings = <<>>
       THEN /\ outcome' = RaiseOutcome("InvalidD0010FormatError", cur.filename)
            /\ UNCHANGED <<db, total_imported>>
       ELSE IF cur.dry_run
       THEN /\ outcome' = ReturnOutcome(Len(file_data.readings))
            /\ total_imported' = total_imported + Len(file_data.readings)
            /\ UNCHANGED db
       ELSE LET Saved(saved) ==
                    IF saved.ok
                    THEN /\ db' = saved.db
                         /\ outcome' = ReturnOutcome(saved.count)
                         /\ total_imported' = total_imported + saved.count
                    ELSE /\ db' = saved.db
                         /\ UNCHANGED total_imported
                         /\ outcome' = RaiseOutcome(saved.exc, "")
            IN  Saved(save_file_data(db, file_data, cur.filename))

ImportFileEnd ==
    /\ pc = "parsing"
    /\ pc' = "idle"
    /\ UNCHANGED <<imports, cur, pre, file_data, current_mpan,
                   current_meter_serial, current_meter_type, line_num, line,
                   racers, cleared, response>>
    /\ IF file_data.readings = <<>>
       THEN /\ outcome' = RaiseOutcome("InvalidD0010FormatError", cur.filename)
            /\ UNCHANGED <<db, total_imported>>
       ELSE IF cur.dry_run
       THEN /\ outcome' = ReturnOutcome(Len(file_data.readings))
            /\ total_imported' = total_imported + Len(file_data.readings)
            /\ UNCHANGED db
       ELSE LET Saved(saved) ==
                    IF saved.ok
                    THEN /\ db' = saved.db
                         /\ outcome' = ReturnOutcome(saved.count)
                         /\ total_imported' = total_imported + saved.count
                    ELSE /\ UNCHANGED <<db, total_imported>>
                         /\ outcome' = RaiseOutcome(saved.exc, "")
            IN  Saved(save_file_data(db, file_data, cur.filename))

(***************************************************************************)
(* Command.handle after its loop over the files (nargs="+": one file at     *)
(* least): "Import completed. Total readings: total_imported".              *)
(***************************************************************************)
HandleEnd ==
    /\ pc = "idle"
    /\ imports >= 1
    /\ pc' = "done"
    /\ UNCHANGED <<db, imports, cur, file_data, current_mpan,
                   current_meter_serial, current_meter_type, line_num, line,
                   outcome, pre, total_imported, racers, cleared,
                   response>>

(***************************************************************************)
(* Spec: Command.handle on up to MaxImports files, one import_file call     *)
(* after another, without --dry-run, on files over Lines.                   *)
(***************************************************************************)
Next ==
    \/ \E file_path \in Paths : ImportFileBegin(file_path, FALSE)
    \/ \E raw \in Lines : ParseLine(raw)
    \/ ImportFileEnd
    \/ HandleEnd

Spec == Init /\ [][Next]_vars

(***************************************************************************)
(* SpecParse: one call of import_file, with or without --dry-run, on a file *)
(* over ParseLines, made on an empty store or on the store left by the      *)
(* import of in/a.uff holding 026 MpanA, 028 Serial1 S, 030 01 DateA.       *)
(***************************************************************************)
SeedFileData ==
    LET st1 == [file_data |-> NoFileData, current_mpan |-> None,
                current_meter_serial |-> None, current_meter_type |-> None]
    IN  ParseRecord(
            ParseRecord(
                ParseRecord(st1, Split(Strip(Line026A))).st,
                Split(Strip(Line028S))).st,
            Split(Strip(Line030A))).st.file_data

SeedDb == save_file_data(EmptyDb, SeedFileData, "a.uff").db

InitParse ==
    /\ db \in {EmptyDb, SeedDb}
    /\ pre = db
    /\ pc = "idle"
    /\ imports = MaxImports - 1
    /\ cur = NoCall
    /\ file_data = NoFileData
    /\ current_mpan = None
    /\ current_meter_serial = None
    /\ current_meter_type = None
    /\ line_num = 0
    /\ line = <<>>
    /\ outcome = NoOutcome
    /\ total_imported = 0
    /\ racers = [p \in {1, 2} |-> NoRacer]
    /\ cleared = None
    /\ response = NoResponse

NextParse ==
    \/ \E file_path \in ParsePaths, dry_run \in BOOLEAN :
           ImportFileBegin(file_path, dry_run)
    \/ \E raw \in ParseLines : ParseLine(raw)
    \/ ImportFileEnd

SpecParse == InitParse /\ [][NextParse]_vars

(***************************************************************************)
(* Vocabulary of the properties.                                            *)
(***************************************************************************)
\* The last call of import_file has ended.
Finished == pc # "parsing" /\ cur # NoCall

\* The call was made on an existing path.
OnExistingFile == cur # NoCall /\ cur.file_path \in ExistingPaths

\* A FlowFile with the filename of the call was committed before the call.
AlreadyImported == \E f \in pre.FlowFile : f.filename = cur.filename

\* The file of the call was parsed to its end and yielded readings.
ParsedWithReadings ==
    /\ Finished /\ OnExistingFile /\ ~AlreadyImported
    /\ outcome.exc \notin {"ParsingError", "InvalidD0010FormatError"}

\* The business key of a reading candidate and of a stored Reading.
CandidateKey(c) ==
    <<c.mpan, c.meter_serial, c.register_id, ToUtc(c.reading_date)>>

RowKey(d, r) ==
    LET m  == CHOOSE x \in d.Meter : x.id = r.meter
        mp == CHOOSE x \in d.MeterPoint : x.id = m.meter_point
    IN  <<mp.mpan, m.serial_number, r.register_id, r.reading_date>>

StoreKeys(d) == {RowKey(d, r) : r \in d.Reading}

CandidateKeys == {CandidateKey(file_data.readings[i]) :
                      i \in 1..Len(file_data.readings)}

DistinctCandidates == Cardinality(CandidateKeys) = Len(file_data.readings)

(***************************************************************************)
(* SpecRace: two processes, each making one import_file call on the same    *)
(* store. The checks of lines 69-77 and the parse are one step: the parse   *)
(* touches nothing shared. A transaction is one step: the INSERT of the     *)
(* FlowFile is its first statement, and the unique index on filename (or    *)
(* the single writer of sqlite) makes the second of two transactions on one *)
(* filename wait for the end of the first.                                  *)
(***************************************************************************)
\* parse_d0010_file on the lines of a whole file, from line i on. The
\* result of each line is bound as a value before the next line is parsed.
RECURSIVE ParseFrom(_, _, _, _)
ParseFrom(st, lines, i, filename) ==
    IF i > Len(lines)
    THEN IF st.file_data.readings = <<>>
         THEN [ok |-> FALSE, file_data |-> st.file_data,
               outcome |-> RaiseOutcome("InvalidD0010FormatError", filename)]
         ELSE [ok |-> TRUE, file_data |-> st.file_data, outcome |-> NoOutcome]
    ELSE LET l == Strip(lines[i])
             parts == Split(l)
             Step(r) ==
                 IF r.ok THEN ParseFrom(r.st, lines, i + 1, filename)
                 ELSE [ok |-> FALSE, file_data |-> st.file_data,
                       outcome |-> [RaiseOutcome("ParsingError", filename)
                                    EXCEPT !.record_type = parts[1],
                                           !.raw_data = l,
                                           !.line_number = i,
                                           !.cause = r.exc]]
         IN  IF l = <<>> THEN ParseFrom(st, lines, i + 1, filename)
             ELSE CHOOSE out \in {Step(r) : r \in {ParseRecord(st, parts)}} :
                      TRUE

\* The processes, the files they import and the paths of these.
Racers == {1, 2}

FileA == <<Line026A, Line028S, Line030A>>
FileA2B == <<Line026A, LineBlank, Line028S, Line030A2, Line030B>>
FileBig == <<Line026A, Line028S, Line030Big>>
FileNoMeter == <<Line026A, Line030A>>
FileBasic == <<LineZHV, Line026A, Line028S, Line030A, LineZPT>>
FileBasicB == <<Line026B, LineZHV2, Line028D, Line030B, LineZPTNoCount>>

RaceFiles == {FileA, FileA2B, FileBig, FileNoMeter, FileBasic, FileBasicB}

RacePaths == ExistingPaths \cup {MissingPath}

\* import_file of process p, from its call to transaction.atomic().
RaceBegin(p, file_path, lines) ==
    /\ racers[p].pc = "none"
    /\ UNCHANGED <<db, pc, imports, cur, file_data, current_mpan,
                   current_meter_serial, current_meter_type, line_num,
                   line, outcome, pre, total_imported, cleared, response>>
    /\ LET filename == Basename(file_path)
           st0 == [file_data |-> NoFileData, current_mpan |-> None,
                   current_meter_serial |-> None, current_meter_type |-> None]
           called == [NoRacer EXCEPT !.file_path = file_path,
                                     !.filename = filename,
                                     !.lines = lines]
       IN  IF ~PathExists(file_path)
           THEN racers' = [racers EXCEPT ![p] =
                   [called EXCEPT !.pc = "done",
                                  !.outcome = RaiseOutcome("CommandError", "")]]
           ELSE IF FlowFileExists(db, filename)
           THEN racers' = [racers EXCEPT ![p] =
                   [called EXCEPT !.pc = "done",
                                  !.outcome = RaiseOutcome("DuplicateFileError",
                                                           filename)]]
           ELSE \E parsed \in {ParseFrom(st0, lines, 1, filename)} :
                    IF ~parsed.ok
                    THEN racers' = [racers EXCEPT ![p] =
                            [called EXCEPT !.pc = "done",
                                           !.file_data = parsed.file_data,
                                           !.outcome = parsed.outcome]]
                    ELSE racers' = [racers EXCEPT ![p] =
                            [called EXCEPT !.pc = "parsed",
                                           !.file_data = parsed.file_data]]

\* The transaction of process p: save_file_data, committed or rolled back.
RaceEnd(p) ==
    /\ racers[p].pc = "parsed"
    /\ UNCHANGED <<pc, imports, cur, file_data, current_mpan,
                   current_meter_serial, current_meter_type, line_num,
                   line, outcome, pre, total_imported, cleared, response>>
    /\ \E saved \in {save_file_data(db, racers[p].file_data,
                                    racers[p].filename)} :
           IF saved.ok
           THEN /\ db' = saved.db
                /\ racers' = [racers EXCEPT
                                  ![p].pc = "done",
                                  ![p].outcome = ReturnOutcome(saved.count)]
           ELSE /\ UNCHANGED db
                /\ racers' = [racers EXCEPT
                                  ![p].pc = "done",
                                  ![p].outcome = RaiseOutcome(saved.exc, "")]

InitRace == Init

NextRace ==
    \/ \E p \in Racers, file_path \in RacePaths, lines \in RaceFiles :
           RaceBegin(p, file_path, lines)
    \/ \E p \in Racers : RaceEnd(p)

SpecRace == InitRace /\ [][NextRace]_vars

(***************************************************************************)
(* SpecService: the store in service. Files come in through the upload      *)
(* endpoint (FlowFileViewSet.upload of api_views.py) or the command line,   *)
(* each import_file call being the single file of its own handle, and       *)
(* clear_all_data (utils.py) empties the store between two calls.           *)
(***************************************************************************)
ServiceLines ==
    {Line026A, Line028S, Line030A, Line030B, Line030Big, Line030BadDate}

\* The names of the files uploaded.
UploadNames == {"a.uff", "b.uff", "a.txt"}

\* FlowFileUploadSerializer.validate_file: value.name.endswith(".uff")
validate_file(name) == name \in {"a.uff", "b.uff"}

\* tempfile.gettempdir()
TempDir == "in"

\* os.path.join(temp_dir, uploaded_file.name)
UploadPath(name) == <<TempDir, name>>

\* upload, up to the call of call_command: the serializer answers 400 to a
\* name that does not end in .uff, else the temporary file is written.
UploadBegin(name) ==
    /\ CallAllowed
    /\ response.stage # "written"
    /\ UNCHANGED <<db, pc, imports, cur, file_data, current_mpan,
                   current_meter_serial, current_meter_type, line_num, line,
                   outcome, pre, total_imported, racers, cleared>>
    /\ IF ~validate_file(name)
       THEN response' = [name |-> name, call |-> imports,
                         stage |-> "answered", status |-> 400,
                         flow_file |-> None]
       ELSE response' = [name |-> name, call |-> imports,
                         stage |-> "written", status |-> 0,
                         flow_file |-> None]

\* call_command("import_d0010", tmp_file_path): handle calls import_file on
\* the temporary file.
UploadImport ==
    /\ response.stage = "written"
    /\ imports = response.call
    /\ ImportFileBegin(UploadPath(response.name), FALSE)

\* import_d0010 run from the command line.
CommandImport(file_path) ==
    /\ response.stage # "written"
    /\ ImportFileBegin(file_path, FALSE)

\* upload, after call_command has returned: handle has caught whatever
\* import_file raised, so the except branch of upload is not taken; the
\* answer is 201 with the FlowFile of the uploaded name when there is one,
\* else 400.
UploadRespond ==
    /\ response.stage = "written"
    /\ imports = response.call + 1
    /\ pc = "idle"
    /\ UNCHANGED <<db, pc, imports, cur, file_data, current_mpan,
                   current_meter_serial, current_meter_type, line_num, line,
                   outcome, pre, total_imported, racers, cleared>>
    /\ LET found == {f \in db.FlowFile : f.filename = response.name}
       IN  IF found # {}
           THEN response' = [response EXCEPT
                                 !.stage = "answered",
                                 !.status = 201,
                                 !.flow_file = Some(CHOOSE f \in found : TRUE)]
           ELSE response' = [response EXCEPT !.stage = "answered",
                                             !.status = 400]

\* Mutant: clear_all_data leaves the FlowFile rows in place.
ClearAllData_KeepsFlowFiles ==
    /\ pc = "idle"
    /\ response.stage # "written"
    /\ cleared' = Some([readings     |-> Cardinality(db.Reading),
                        meters       |-> Cardinality(db.Meter),
                        meter_points |-> Cardinality(db.MeterPoint),
                        flow_files   |-> Cardinality(db.FlowFile)])
    /\ db' = [EmptyDb EXCEPT !.FlowFile = db.FlowFile]
    /\ UNCHANGED <<pc, imports, cur, file_data, current_mpan,
                   current_meter_serial, current_meter_type, line_num, line,
                   outcome, pre, total_imported, racers, response>>

\* clear_all_data(), called while no import is running: the four counts,
\* then the four deletes.
ClearAllData ==
    /\ pc = "idle"
    /\ response.stage # "written"
    /\ cleared' = Some([readings     |-> Cardinality(db.Reading),
                        meters       |-> Cardinality(db.Meter),
                        meter_points |-> Cardinality(db.MeterPoint),
                        flow_files   |-> Cardinality(db.FlowFile)])
    /\ db' = EmptyDb
    /\ UNCHANGED <<pc, imports, cur, file_data, current_mpan,
                   current_meter_serial, current_meter_type, line_num, line,
                   outcome, pre, total_imported, racers, response>>

InitService == Init

NextService ==
    \/ \E name \in UploadNames : UploadBegin(name)
    \/ UploadImport
    \/ \E file_path \in Paths : CommandImport(file_path)
    \/ \E raw \in ServiceLines : ParseLine(raw)
    \/ ImportFileEnd
    \/ UploadRespond
    \/ ClearAllData

SpecService == InitService /\ [][NextService]_vars

(***************************************************************************)
(* SpecTx: two processes import files of different names at the same time   *)
(* on the PostgreSQL database of settings.py, under READ COMMITTED. Each    *)
(* statement of save_file_data is a step. A transaction reads the committed *)
(* rows and its own; an INSERT whose unique key is held by a row the other  *)
(* transaction has written and not committed waits for that transaction to  *)
(* end; two transactions waiting for each other are a deadlock, which the   *)
(* database ends by aborting one of them.                                   *)
(***************************************************************************)
Tables == {"FlowFile", "MeterPoint", "Meter", "Reading"}

Other(p) == 3 - p

\* What the transaction of process p reads.
Visible(p) == [T \in Tables |-> db[T] \cup racers[p].tx.own[T]]

\* The primary key a sequence gives to a new row: keys are not given twice,
\* whether the rows are committed or not.
Fresh(T, row) ==
    [row EXCEPT !.id = NextId(db[T] \cup racers[1].tx.own[T]
                                    \cup racers[2].tx.own[T])]

\* Rows a and b of table T have the same unique key.
SameKey(T, a, b) ==
    CASE T = "FlowFile" -> a.filename = b.filename
      [] T = "MeterPoint" -> a.mpan = b.mpan
      [] T = "Meter" -> /\ a.meter_point = b.meter_point
                        /\ a.serial_number = b.serial_number
      [] T = "Reading" -> /\ a.meter = b.meter
                          /\ a.register_id = b.register_id
                          /\ a.reading_date = b.reading_date

\* The transaction of process q holds the unique key of row in table T.
Held(q, T, row) == \E x \in racers[q].tx.own[T] : SameKey(T, x, row)

\* The table of the get_or_create call a transaction is at.
TableAt(at) ==
    CASE at = "point" -> "MeterPoint"
      [] at = "meter" -> "Meter"
      [] at = "reading" -> "Reading"

\* The get_or_create call process p is at, on what its transaction reads.
Pending(p) ==
    LET t == racers[p].tx
        c == racers[p].file_data.readings[t.i]
    IN  CASE t.at = "point" -> MeterPoint_get_or_create(Visible(p), c.mpan)
          [] t.at = "meter" ->
                 Meter_get_or_create(Visible(p), t.point, c.meter_serial,
                                     c.meter_type)
          [] t.at = "reading" ->
                 Reading_get_or_create(Visible(p), t.meter, c.register_id,
                                       c.reading_date, t.flow_file,
                                       c.reading_value, c.reading_type)

\* Process p is at an INSERT that waits for the other transaction.
Waiting(p) ==
    /\ racers[p].pc = "saving"
    /\ racers[p].tx.i <= Len(racers[p].file_data.readings)
    /\ LET Waits(res) ==
               /\ res.ok /\ res.created
               /\ Held(Other(p), TableAt(racers[p].tx.at), res.obj)
       IN  Waits(Pending(p))

\* The process after its transaction was rolled back on exception exc.
Aborted(r, exc) ==
    [r EXCEPT !.pc = "done", !.tx = NoTx, !.outcome = RaiseOutcome(exc, "")]

\* The transaction after the call it was at gave obj, created or found.
Advance(t, obj, created) ==
    CASE t.at = "point" -> [t EXCEPT !.point = obj, !.at = "meter"]
      [] t.at = "meter" -> [t EXCEPT !.meter = obj, !.at = "reading"]
      [] t.at = "reading" ->
             [t EXCEPT !.i = @ + 1, !.at = "point",
                       !.imported_count = IF created THEN @ + 1 ELSE @]

\* import_file of process p up to transaction.atomic(): RaceBegin on a path
\* of its own name.
TxPath(p) == IF p = 1 THEN <<"in", "a.uff">> ELSE <<"in", "b.uff">>

FileAB == <<Line026A, Line028S, Line030A, Line026B, Line028S, Line030B>>
FileBA == <<Line026B, Line028S, Line030B, Line026A, Line028S, Line030A>>

TxFiles == {FileA, FileA2B, FileAB, FileBA}

TxCall(p, lines) == RaceBegin(p, TxPath(p), lines)

\* transaction.atomic() and FlowFile.objects.create(...).
TxBegin(p) ==
    /\ racers[p].pc = "parsed"
    /\ UNCHANGED <<db, pc, imports, cur, file_data, current_mpan,
                   current_meter_serial, current_meter_type, line_num,
                   line, outcome, pre, total_imported, cleared, response>>
    /\ LET Created(res) ==
               IF ~res.ok
               THEN racers' = [racers EXCEPT ![p] = Aborted(@, res.exc)]
               ELSE /\ ~Held(Other(p), "FlowFile", res.obj)
                    /\ racers' = [racers EXCEPT
                           ![p].pc = "saving",
                           ![p].tx = [NoTx EXCEPT
                               !.own.FlowFile = {Fresh("FlowFile", res.obj)},
                               !.flow_file = Fresh("FlowFile", res.obj)]]
       IN  Created(FlowFile_create(
                       Visible(p), racers[p].filename,
                       IF racers[p].file_data.header # None
                       THEN racers[p].file_data.header[1].file_reference
                       ELSE <<>>,
                       0))

\* One get_or_create call of the loop. A row found is returned; a row to
\* create is inserted unless its key is held by the other transaction, in
\* which case the call waits; any exception becomes a CommandError, which
\* rolls the transaction back.
TxGetOrCreate(p) ==
    /\ racers[p].pc = "saving"
    /\ racers[p].tx.i <= Len(racers[p].file_data.readings)
    /\ UNCHANGED <<db, pc, imports, cur, file_data, current_mpan,
                   current_meter_serial, current_meter_type, line_num,
                   line, outcome, pre, total_imported, cleared, response>>
    /\ LET t == racers[p].tx
           T == TableAt(t.at)
           Got(res) ==
               IF ~res.ok
               THEN racers' = [racers EXCEPT
                                   ![p] = Aborted(@, "CommandError")]
               ELSE IF ~res.created
               THEN racers' = [racers EXCEPT
                                   ![p].tx = Advance(t, res.obj, FALSE)]
               ELSE /\ ~Held(Other(p), T, res.obj)
                    /\ racers' = [racers EXCEPT ![p].tx =
                           Advance([t EXCEPT !.own[T] =
                                       @ \cup {Fresh(T, res.obj)}],
                                   Fresh(T, res.obj), TRUE)]
       IN  Got(Pending(p))

\* The database ends a deadlock: the statement of process p fails, which
\* save_file_data turns into a CommandError.
TxDeadlock(p) ==
    /\ Waiting(p)
    /\ Waiting(Other(p))
    /\ racers' = [racers EXCEPT ![p] = Aborted(@, "CommandError")]
    /\ UNCHANGED <<db, pc, imports, cur, file_data, current_mpan,
                   current_meter_serial, current_meter_type, line_num,
                   line, outcome, pre, total_imported, cleared, response>>

\* The end of save_file_data: record_count is saved and the transaction
\* commits.
TxCommit(p) ==
    /\ racers[p].pc = "saving"
    /\ racers[p].tx.i > Len(racers[p].file_data.readings)
    /\ UNCHANGED <<pc, imports, cur, file_data, current_mpan,
                   current_meter_serial, current_meter_type, line_num,
                   line, outcome, pre, total_imported, cleared, response>>
    /\ LET t == racers[p].tx
           saved == [t.flow_file EXCEPT !.record_count = t.imported_count]
       IN  /\ db' = [T \in Tables |->
                        IF T = "FlowFile" THEN db[T] \cup {saved}
                        ELSE db[T] \cup t.own[T]]
           /\ racers' = [racers EXCEPT
                             ![p].pc = "done",
                             ![p].tx = NoTx,
                             ![p].outcome = ReturnOutcome(t.imported_count)]

\* The store left by the import of seed.uff, a file like in/a.uff.
TxSeedDb == save_file_data(EmptyDb, SeedFileData, "seed.uff").db

InitTx ==
    /\ db \in {EmptyDb, TxSeedDb}
    /\ pre = db
    /\ pc = "idle"
    /\ imports = 0
    /\ cur = NoCall
    /\ file_data = NoFileData
    /\ current_mpan = None
    /\ current_meter_serial = None
    /\ current_meter_type = None
    /\ line_num = 0
    /\ line = <<>>
    /\ outcome = NoOutcome
    /\ total_imported = 0
    /\ racers = [p \in {1, 2} |-> NoRacer]
    /\ cleared = None
    /\ response = NoResponse

NextTx ==
    \/ \E p \in Racers, lines \in TxFiles : TxCall(p, lines)
    \/ \E p \in Racers : TxBegin(p)
    \/ \E p \in Racers : TxGetOrCreate(p)
    \/ \E p \in Racers : TxDeadlock(p)
    \/ \E p \in Racers : TxCommit(p)

SpecTx == InitTx /\ [][NextTx]_vars

(***************************************************************************)
(* C1. An import of an existing file whose basename already names a         *)
(* committed FlowFile raises DuplicateFileError and leaves the store as it  *)
(* was; no two FlowFile rows ever share a filename.                         *)
(***************************************************************************)
C1_DuplicateFileRejected ==
    /\ (cur # NoCall /\ OnExistingFile /\ AlreadyImported) =>
           /\ pc # "parsing"
           /\ outcome.status = "raised"
           /\ outcome.exc = "DuplicateFileError"
           /\ db = pre
    /\ \A f, g \in db.FlowFile : f.filename = g.filename => f = g

\* A second import of in/a.uff was rejected, the store keeping its rows.
C1_Witness ==
    /\ Finished
    /\ cur.file_path = <<"in", "a.uff">>
    /\ outcome.exc = "DuplicateFileError"
    /\ \E f \in db.FlowFile : f.filename = "a.uff" /\ f.record_count > 0
    /\ db.Reading # {}

(***************************************************************************)
(* C2. A file that parses into N candidates of N distinct keys (mpan,       *)
(* serial, register, instant), none of them stored and every value fitting  *)
(* the reading_value column, imports with count N and N new Readings; a     *)
(* file under a filename not yet imported whose keys are all stored         *)
(* imports with count 0 and adds no Reading.                                *)
(***************************************************************************)
C2_IdempotentCount ==
    LET N == Len(file_data.readings)
    IN  (ParsedWithReadings /\ ~cur.dry_run) =>
            /\ ( /\ DistinctCandidates
                 /\ CandidateKeys \cap StoreKeys(pre) = {}
                 /\ \A i \in 1..N :
                        AdaptDecimal(file_data.readings[i].reading_value).ok )
               => /\ outcome.status = "returned"
                  /\ outcome.count = N
                  /\ Cardinality(db.Reading) = Cardinality(pre.Reading) + N
            /\ CandidateKeys \subseteq StoreKeys(pre)
               => /\ outcome.status = "returned"
                  /\ outcome.count = 0
                  /\ db.Reading = pre.Reading

\* b.uff, holding the two keys a.uff brought in, was imported with count 0.
C2_Witness ==
    /\ Finished
    /\ cur.filename = "b.uff"
    /\ outcome.status = "returned"
    /\ outcome.count = 0
    /\ Len(file_data.readings) = 2
    /\ DistinctCandidates
    /\ Cardinality(db.Reading) = 2
    /\ \E f \in db.FlowFile : f.filename = "a.uff" /\ f.record_count = 2

(***************************************************************************)
(* C3. No two Readings share (meter, register_id, reading_date), and every  *)
(* Reading stored when an import was called is still stored, with the same  *)
(* flow_file and reading_value, when the import has ended.                  *)
(***************************************************************************)
C3_ReadingUniqueAndKept ==
    /\ \A r1, r2 \in db.Reading :
           ( /\ r1.meter = r2.meter
             /\ r1.register_id = r2.register_id
             /\ r1.reading_date = r2.reading_date ) => r1 = r2
    /\ \A r \in pre.Reading :
           \E q \in db.Reading : /\ q.id = r.id
                                 /\ q.flow_file = r.flow_file
                                 /\ q.reading_value = r.reading_value

\* An import met a stored key again, with another value, and committed.
C3_Witness ==
    /\ Finished
    /\ outcome.status = "returned"
    /\ \E i \in 1..Len(file_data.readings) : \E r \in pre.Reading :
           /\ RowKey(pre, r) = CandidateKey(file_data.readings[i])
           /\ AdaptDecimal(file_data.readings[i].reading_value).value
                  # r.reading_value
           /\ r \in db.Reading
           /\ \E f \in db.FlowFile \ pre.FlowFile : f.id # r.flow_file

(***************************************************************************)
(* C4. While a file is being parsed, and after its parse has failed at a    *)
(* line or found no readings, the store is what it was when import_file     *)
(* was called.                                                              *)
(***************************************************************************)
C4_ParseFailureWritesNothing ==
    ( \/ pc = "parsing"
      \/ Finished /\ outcome.exc \in {"ParsingError", "InvalidD0010FormatError"} )
    => db = pre

\* A real import failed on its fourth line, after a valid reading.
C4_Witness ==
    /\ Finished
    /\ ~cur.dry_run
    /\ outcome.exc = "ParsingError"
    /\ outcome.line_number = 4
    /\ Len(file_data.readings) = 1
    /\ db = pre

(***************************************************************************)
(* C5. When some candidate of a parsed file needs a new Reading whose value *)
(* the column rejects, the import raises CommandError and the store is what *)
(* it was before the call: no FlowFile of that filename, and none of the    *)
(* rows made for the candidates before it.                                  *)
(***************************************************************************)
\* Candidate k is not stored, not met earlier in the file, and not storable.
Rejected(k) ==
    LET c == file_data.readings[k]
    IN  /\ CandidateKey(c) \notin StoreKeys(pre)
        /\ \A j \in 1..(k - 1) :
               CandidateKey(file_data.readings[j]) # CandidateKey(c)
        /\ ~AdaptDecimal(c.reading_value).ok

C5_PersistenceErrorRollsBack ==
    ( /\ ParsedWithReadings
      /\ ~cur.dry_run
      /\ \E k \in 1..Len(file_data.readings) : Rejected(k) )
    => /\ outcome.status = "raised"
       /\ outcome.exc = "CommandError"
       /\ db = pre
       /\ \A f \in db.FlowFile : f.filename # cur.filename

\* The second candidate was rejected after the first had made its
\* MeterPoint, Meter and Reading in an empty store.
C5_Witness ==
    /\ Finished
    /\ outcome.exc = "CommandError"
    /\ ParsedWithReadings
    /\ Len(file_data.readings) = 2
    /\ Rejected(2)
    /\ AdaptDecimal(file_data.readings[1].reading_value).ok
    /\ pre = EmptyDb
    /\ db = EmptyDb

\* The line the parser read last, split into fields, and its leading tag.
LastLineRead == cur # NoCall /\ line # <<>>

LastParts == Split(line)

LastTag == LastParts[1]

\* The parse ended at the line read last.
FailedAtLastLine ==
    /\ Finished
    /\ outcome.exc = "ParsingError"
    /\ outcome.line_number = line_num

KnownTags == {TagZHV, Tag026, Tag028, Tag030, TagZPT}

(***************************************************************************)
(* C6. A 030 line is accepted only with current_mpan and                    *)
(* current_meter_serial both set, and then yields a candidate under them;   *)
(* read without them it ends the parse with a ParsingError for 030. An      *)
(* accepted 026 line leaves current_mpan set to its MPAN and the meter      *)
(* serial and type cleared.                                                 *)
(***************************************************************************)
C6_ReadingNeedsContext ==
    /\ (LastLineRead /\ LastTag = Tag030 /\ ~FailedAtLastLine) =>
           /\ Truthy(current_mpan) /\ Truthy(current_meter_serial)
           /\ file_data.readings # <<>>
           /\ LET c == file_data.readings[Len(file_data.readings)]
              IN  /\ c.mpan = current_mpan[1]
                  /\ c.meter_serial = current_meter_serial[1]
    /\ ( /\ LastLineRead /\ LastTag = Tag030
         /\ ~(Truthy(current_mpan) /\ Truthy(current_meter_serial)) ) =>
           /\ FailedAtLastLine
           /\ outcome.record_type = Tag030
           /\ outcome.cause = "ValueError"
    /\ (LastLineRead /\ LastTag = Tag026 /\ ~FailedAtLastLine) =>
           /\ Len(LastParts) >= 2
           /\ current_mpan = Some(Strip(LastParts[2]))
           /\ current_meter_serial = None
           /\ current_meter_type = None

\* A 030 on line 4 failed under a current MPAN with no current meter.
C6_Witness ==
    /\ FailedAtLastLine
    /\ LastTag = Tag030
    /\ outcome.record_type = Tag030
    /\ outcome.cause = "ValueError"
    /\ outcome.line_number = 4
    /\ current_mpan # None
    /\ current_meter_serial = None

C8_MeterTypeDefaultsToS ==
    ( /\ LastLineRead /\ LastTag = Tag028
      /\ Len(LastParts) = 2
      /\ Strip(LastParts[2]) # <<>> ) =>
        /\ ~FailedAtLastLine
        /\ current_meter_serial = Some(Strip(LastParts[2]))
        /\ current_meter_type = Some(DefaultMeterType)

(***************************************************************************)
(* C9. A file that parses to its end without a reading candidate is         *)
(* rejected with an InvalidD0010FormatError carrying the filename and no    *)
(* line number, and the store is what it was before the call.               *)
(***************************************************************************)
C9_NoReadingsRejected ==
    ( /\ Finished /\ OnExistingFile /\ ~AlreadyImported
      /\ outcome.exc # "ParsingError"
      /\ file_data.readings = <<>> ) =>
        /\ outcome.status = "raised"
        /\ outcome.exc = "InvalidD0010FormatError"
        /\ outcome.filename = cur.filename
        /\ outcome.line_number = 0
        /\ db = pre

\* A real import of a file of a header and a trailer was rejected.
C9_Witness ==
    /\ Finished
    /\ ~cur.dry_run
    /\ outcome.exc = "InvalidD0010FormatError"
    /\ outcome.filename = cur.filename
    /\ file_data.header # None
    /\ file_data.trailer # None
    /\ line_num = 2
    /\ db = pre

(***************************************************************************)
(* C10, as stated: a 026 line whose MPAN field is not exactly 13 ASCII      *)
(* digits ends the parse with a ParsingError for record type 026, the       *)
(* store is unchanged and holds no MeterPoint of that value.                *)
(***************************************************************************)
C10_BadMpanRejected ==
    ( /\ LastLineRead /\ LastTag = Tag026
      /\ Len(LastParts) >= 2
      /\ ~( /\ Len(LastParts[2]) = MpanLen
            /\ \A i \in 1..Len(LastParts[2]) : LastParts[2][i] \in AsciiDigits ) )
    => /\ FailedAtLastLine
       /\ outcome.record_type = Tag026
       /\ db = pre
       /\ \A m \in db.MeterPoint : m.mpan # LastParts[2]

(***************************************************************************)
(* C11. Every line read while parsing, blank or not, advances the line      *)
(* number by one. A step that ends the parse at a line raises ParsingError  *)
(* with that line's tag, its content after trimming, the basename of the    *)
(* file and the number of the line, and leaves the parsed data as the       *)
(* lines before it made them. After it no line of that file is read.        *)
(***************************************************************************)
C11_ParsingErrorContext ==
    [][ /\ (pc = "parsing" /\ (line' # line \/ line_num' # line_num))
           => line_num' = line_num + 1
        /\ (pc = "parsing" /\ pc' = "idle" /\ outcome'.exc = "ParsingError")
           => /\ outcome'.status = "raised"
              /\ line' # <<>>
              /\ outcome'.record_type = Split(line')[1]
              /\ outcome'.raw_data = line'
              /\ outcome'.filename = cur.filename
              /\ outcome'.line_number = line_num + 1
              /\ line_num' = line_num + 1
              /\ UNCHANGED <<file_data, current_mpan, current_meter_serial,
                             current_meter_type>>
        /\ (pc = "idle" /\ outcome.exc = "ParsingError" /\ cur' = cur)
           => UNCHANGED <<line_num, line, file_data, outcome>> ]_vars

\* A 030 line failed as line 2 with nothing parsed before it: line 1 was
\* blank or of an unknown tag, and was counted.
C11_Witness ==
    /\ FailedAtLastLine
    /\ outcome.line_number = 2
    /\ outcome.record_type = Tag030
    /\ outcome.raw_data = Line030A
    /\ outcome.filename = "b.uff"
    /\ file_data = NoFileData
    /\ current_mpan = None
    /\ current_meter_serial = None

(***************************************************************************)
(* C12. From the call of import_file with dry_run set, through its parse    *)
(* and after its return or its exception, the store is what it was when the *)
(* call was made.                                                           *)
(***************************************************************************)
C12_DryRunWritesNothing ==
    (cur # NoCall /\ cur.dry_run) => db = pre

\* A dry run returned 2 for a file whose import would have written rows.
C12_Witness ==
    /\ Finished
    /\ cur.dry_run
    /\ outcome.status = "returned"
    /\ outcome.count = 2
    /\ DistinctCandidates
    /\ CandidateKeys \cap StoreKeys(pre) = {}
    /\ db = pre

\* The outcome of a dry run that the parse alone decides.
DryRunParseOutcome ==
    \/ outcome.exc \in {"ParsingError", "InvalidD0010FormatError"}
    \/ /\ outcome.status = "returned"
       /\ file_data.readings # <<>>
       /\ outcome.count = Len(file_data.readings)

(***************************************************************************)
(* C13, as stated: the outcome of a dry run on an existing file is that of  *)
(* its parse, the count of candidates or the parse error, whatever the      *)
(* store holds.                                                             *)
(***************************************************************************)
C13_DryRunIgnoresStore ==
    (Finished /\ cur.dry_run /\ OnExistingFile) => DryRunParseOutcome

(***************************************************************************)
(* C13, amended: a dry run on an existing file whose filename has a         *)
(* FlowFile in the store raises DuplicateFileError without reading a line;  *)
(* on any other store its outcome is that of the parse, and a returned      *)
(* count is the number of candidates, stored keys included.                 *)
(***************************************************************************)
C13_DryRunOutcome ==
    (Finished /\ cur.dry_run /\ OnExistingFile) =>
        IF AlreadyImported
        THEN /\ outcome.status = "raised"
             /\ outcome.exc = "DuplicateFileError"
             /\ line_num = 0
        ELSE DryRunParseOutcome

\* A dry run returned 1 for a candidate whose key the store holds.
C13_Witness ==
    /\ Finished
    /\ cur.dry_run
    /\ ~AlreadyImported
    /\ pre = SeedDb
    /\ outcome.status = "returned"
    /\ outcome.count = 1
    /\ CandidateKeys \subseteq StoreKeys(pre)

\* The sum of record_count over a set of FlowFile rows.
RECURSIVE SumRecordCount(_)
SumRecordCount(rows) ==
    IF rows = {} THEN 0
    ELSE LET f == CHOOSE r \in rows : TRUE
         IN  f.record_count + SumRecordCount(rows \ {f})

\* Every row of store d is a row of store e.
RowsKept(d, e) ==
    /\ d.FlowFile \subseteq e.FlowFile
    /\ d.MeterPoint \subseteq e.MeterPoint
    /\ d.Meter \subseteq e.Meter
    /\ d.Reading \subseteq e.Reading

(***************************************************************************)
(* C14. Every call of import_file in a batch ends with handle ready for the *)
(* next file and with every row of the files before it still stored. A      *)
(* call that raises (missing file, duplicate, parse error, persistence      *)
(* error) changes neither the store nor the total; a call that returns adds *)
(* its count to the total. The total handle reports is the sum of the       *)
(* counts of the files committed.                                           *)
(***************************************************************************)
C14_BatchIsolation ==
    /\ [](total_imported = SumRecordCount(db.FlowFile))
    /\ [][ /\ ( /\ pc' # "parsing"
                /\ pc = "parsing" \/ imports' = imports + 1 )
              => /\ pc' = "idle"
                 /\ RowsKept(db, db')
                 /\ outcome'.status \in {"returned", "raised"}
                 /\ outcome'.status = "returned"
                    => total_imported' = total_imported + outcome'.count
                 /\ outcome'.status = "raised"
                    => total_imported' = total_imported /\ db' = db
           /\ pc' = "done" => UNCHANGED <<db, total_imported>> ]_vars

\* A batch of two files ended with total 1: the first file failed and left
\* the store empty, the second was imported.
C14_Witness ==
    /\ pc = "done"
    /\ imports = 2
    /\ pre = EmptyDb
    /\ outcome.status = "returned"
    /\ outcome.count = 1
    /\ total_imported = 1
    /\ Cardinality(db.FlowFile) = 1

\* Process p passed the checks of import_file, parsed its file and ran its
\* transaction to the end.
Transacted(p) ==
    /\ racers[p].pc = "done"
    /\ PathExists(racers[p].file_path)
    /\ racers[p].outcome.exc \notin
           {"DuplicateFileError", "ParsingError", "InvalidD0010FormatError"}

\* Every reading value of the file of process p fits the column.
Storable(p) ==
    \A i \in 1..Len(racers[p].file_data.readings) :
        AdaptDecimal(racers[p].file_data.readings[i].reading_value).ok

Committed(p) == racers[p].outcome.status = "returned"

(***************************************************************************)
(* C15. When two processes import the same filename and both get past the   *)
(* duplicate check into their transactions, they never both commit and the  *)
(* store never holds two FlowFiles of that filename. When the values of     *)
(* both files fit the column, exactly one commits and the other raises: one *)
(* FlowFile of that filename exists, and the Readings stored are those the  *)
(* committed import counted, all attributed to its FlowFile.                *)
(***************************************************************************)
C15_RaceCommitsOnce ==
    /\ \A r \in db.Reading : \E f \in db.FlowFile : f.id = r.flow_file
    /\ ( /\ Transacted(1) /\ Transacted(2)
         /\ racers[1].filename = racers[2].filename ) =>
           LET named == {f \in db.FlowFile : f.filename = racers[1].filename}
           IN  /\ ~(Committed(1) /\ Committed(2))
               /\ Cardinality(named) <= 1
               /\ (Storable(1) /\ Storable(2)) =>
                      \E p, q \in Racers :
                          /\ p # q
                          /\ Committed(p)
                          /\ racers[q].outcome.status = "raised"
                          /\ Cardinality(named) = 1
                          /\ Cardinality(db.Reading) = racers[p].outcome.count
                          /\ \A r \in db.Reading : \A f \in named :
                                 r.flow_file = f.id

\* Process 1 committed a.uff with one Reading; process 2, whose file of the
\* same name holds two readings, lost and left nothing.
C15_Witness ==
    /\ Transacted(1) /\ Transacted(2)
    /\ racers[1].file_path = <<"in", "a.uff">>
    /\ racers[2].file_path = <<"retry", "a.uff">>
    /\ Committed(1)
    /\ racers[1].outcome.count = 1
    /\ racers[2].outcome.status = "raised"
    /\ Len(racers[2].file_data.readings) = 2
    /\ Storable(2)
    /\ Cardinality(db.Reading) = 1
    /\ Cardinality(db.FlowFile) = 1

(***************************************************************************)
(* C16, as stated: the process that loses the race on the uniqueness of     *)
(* FlowFile.filename ends with DuplicateFileError.                          *)
(***************************************************************************)
C16_RaceLoserIsDuplicate ==
    \A p, q \in Racers :
        ( /\ p # q
          /\ Transacted(p) /\ Transacted(q)
          /\ racers[p].filename = racers[q].filename
          /\ Committed(p)
          /\ Storable(q) )
        => /\ racers[q].outcome.status = "raised"
           /\ racers[q].outcome.exc = "DuplicateFileError"

(***************************************************************************)
(* C17. The record_count of every FlowFile is the number of Readings        *)
(* attributed to it, and an import that returns leaves a FlowFile of its    *)
(* filename whose record_count is the count returned.                       *)
(***************************************************************************)
C17_RecordCountIsImported ==
    /\ \A f \in db.FlowFile :
           f.record_count =
               Cardinality({r \in db.Reading : r.flow_file = f.id})
    /\ (Finished /\ ~cur.dry_run /\ outcome.status = "returned") =>
           \E f \in db.FlowFile \ pre.FlowFile :
               /\ f.filename = cur.filename
               /\ f.record_count = outcome.count

\* The second import of a batch created one Reading out of two candidates,
\* and its FlowFile counts 1.
C17_Witness ==
    /\ Finished
    /\ imports = 2
    /\ outcome.status = "returned"
    /\ outcome.count = 1
    /\ Len(file_data.readings) = 2
    /\ \E f \in db.FlowFile :
           /\ f.filename = cur.filename
           /\ f.record_count = 1
           /\ Cardinality({r \in db.Reading : r.flow_file = f.id}) = 1

(***************************************************************************)
(* C18, as stated: no stored Reading has a value below zero, and the        *)
(* import of a file with a candidate of a new key whose value is below      *)
(* zero raises.                                                             *)
(***************************************************************************)
C18_NegativeValueRejected ==
    /\ \A r \in db.Reading : Reading_clean(r.reading_value)
    /\ ( /\ ParsedWithReadings
         /\ ~cur.dry_run
         /\ \E i \in 1..Len(file_data.readings) :
                LET c == file_data.readings[i]
                IN  /\ CandidateKey(c) \notin StoreKeys(pre)
                    /\ AdaptDecimal(c.reading_value).ok
                    /\ ~Reading_clean(AdaptDecimal(c.reading_value).value) )
       => outcome.status = "raised"

(***************************************************************************)
(* C19, as stated: a ZPT line never ends the parse, whatever its declared   *)
(* count: numeric, missing or non-numeric.                                  *)
(***************************************************************************)
C19_TrailerCountIgnored ==
    (LastLineRead /\ LastTag = TagZPT) =>
        /\ ~FailedAtLastLine
        /\ file_data.trailer # None

(***************************************************************************)
(* C20. Reading a line that is empty after trimming changes nothing but     *)
(* the line number: the parse goes on with the same current MPAN, meter     *)
(* serial and type and the same header, trailer and list of candidates, so  *)
(* the records after it are parsed as if it were not there.                 *)
(***************************************************************************)
C20_BlankLineIgnored ==
    [][ ( /\ pc = "parsing"
          /\ line_num' = line_num + 1
          /\ line' = <<>> )
        => /\ pc' = "parsing"
           /\ UNCHANGED <<file_data, current_mpan, current_meter_serial,
                          current_meter_type, db, outcome, total_imported>>
      ]_vars

\* A blank third line was read after a 026 and a 028, whose context is
\* still set.
C20_Witness ==
    /\ pc = "parsing"
    /\ line_num = 3
    /\ line = <<>>
    /\ current_mpan = Some(MpanA)
    /\ current_meter_serial = Some(Serial1)
    /\ current_meter_type = Some(TypeD)
    /\ file_data = NoFileData

(***************************************************************************)
(* C21. A file of five records, one each of ZHV, 026, 028, 030 and ZPT,     *)
(* every one valid, imported while the store is empty, commits with count  *)
(* 1 and leaves one FlowFile, one MeterPoint, one Meter and one Reading;    *)
(* the file_reference of the FlowFile is field 1 of the ZHV record.         *)
(***************************************************************************)
\* The record types of the lines of a file, in file order.
TagsOf(lines) == [i \in 1..Len(lines) |-> Split(Strip(lines[i]))[1]]

\* Five records, one of each known record type.
OneOfEach(lines) ==
    /\ Len(lines) = 5
    /\ \A tag \in KnownTags :
           Cardinality({i \in 1..Len(lines) : TagsOf(lines)[i] = tag}) = 1

\* Field 1 of the ZHV record of a file that holds one.
HeaderField1(lines) ==
    Split(Strip(lines[CHOOSE i \in 1..Len(lines) :
                          TagsOf(lines)[i] = TagZHV]))[2]

C21_BasicFileImport ==
    \A p, q \in Racers :
        ( /\ p # q
          /\ OneOfEach(racers[p].lines)
          /\ Transacted(p) /\ Storable(p)
          /\ ~Committed(q) )
        => /\ Committed(p)
           /\ racers[p].outcome.count = 1
           /\ Cardinality(db.FlowFile) = 1
           /\ Cardinality(db.MeterPoint) = 1
           /\ Cardinality(db.Meter) = 1
           /\ Cardinality(db.Reading) = 1
           /\ \A f \in db.FlowFile :
                  /\ f.filename = racers[p].filename
                  /\ f.file_reference = HeaderField1(racers[p].lines)
                  /\ f.record_count = 1

\* Process 2 committed b.uff, whose ZHV record is its second line and
\* carries R2 in field 1 and R1 in field 2; process 1 has not started.
C21_Witness ==
    /\ racers[1].pc = "none"
    /\ racers[2].lines = FileBasicB
    /\ racers[2].filename = "b.uff"
    /\ Committed(2)
    /\ racers[2].outcome.count = 1
    /\ \E f \in db.FlowFile : f.file_reference = FileRef2
    /\ \E m \in db.Meter : m.meter_type = TypeD
    /\ Cardinality(db.Reading) = 1

(***************************************************************************)
(* C22. A clear_all_data call leaves no Reading, Meter, MeterPoint or       *)
(* FlowFile and returns the four row counts of the store it was called on;  *)
(* an import_file call made on an existing file while the store is empty    *)
(* does not raise DuplicateFileError, whatever was imported before.         *)
(***************************************************************************)
\* The row counts of a store, as clear_all_data reports them.
RowCounts(d) ==
    [readings     |-> Cardinality(d.Reading),
     meters       |-> Cardinality(d.Meter),
     meter_points |-> Cardinality(d.MeterPoint),
     flow_files   |-> Cardinality(d.FlowFile)]

\* A step of clear_all_data: the only step taken while no import runs that
\* changes the store or the counts last returned.
ClearStep == pc = "idle" /\ pc' = "idle" /\ <<db, cleared>>' # <<db, cleared>>

C22_ClearAllData ==
    [][ /\ ClearStep => /\ db' = EmptyDb
                        /\ cleared' = Some(RowCounts(db))
        /\ (imports' = imports + 1 /\ db = EmptyDb /\ PathExists(cur'.file_path))
               => outcome'.exc # "DuplicateFileError" ]_vars

\* The upload of a.uff was answered 201, clear_all_data returned one row
\* of each kind, and in/a.uff was imported again with count 1.
C22_Witness ==
    /\ response.name = "a.uff" /\ response.call = 0 /\ response.status = 201
    /\ cleared = Some([readings |-> 1, meters |-> 1, meter_points |-> 1,
                       flow_files |-> 1])
    /\ imports = 2
    /\ Finished
    /\ cur.filename = "a.uff"
    /\ pre = EmptyDb
    /\ outcome.status = "returned"
    /\ outcome.count = 1
    /\ Cardinality(db.FlowFile) = 1

(***************************************************************************)
(* C23. The count a committed import returns is the number of distinct      *)
(* keys (mpan, serial, register, instant) among the candidates of the file  *)
(* that were not in the store when the import was called; it is never more  *)
(* than the number of candidates.                                           *)
(***************************************************************************)
C23_CountIsNewKeys ==
    (ParsedWithReadings /\ ~cur.dry_run /\ outcome.status = "returned") =>
        /\ outcome.count = Cardinality(CandidateKeys \ StoreKeys(pre))
        /\ outcome.count <= Len(file_data.readings)

\* A file whose two candidates share one key, that key being new, was
\* imported with count 1 into a store that held another key of the meter.
C23_Witness ==
    /\ Finished
    /\ outcome.status = "returned"
    /\ outcome.count = 1
    /\ Len(file_data.readings) = 2
    /\ Cardinality(CandidateKeys) = 1
    /\ Cardinality(pre.Reading) = 1
    /\ Cardinality(db.Reading) = 2

(***************************************************************************)
(* C24. When a line is read: a candidate appended to the readings carries   *)
(* the MPAN, the serial and the type that were current before the line; a   *)
(* ZHV, ZPT or 030 line leaves the three unchanged; a 028 line that parses  *)
(* sets serial and type from its fields and keeps the MPAN; and the         *)
(* candidates emitted before the line stay as they were.                    *)
(***************************************************************************)
C24_CandidateCarriesContext ==
    [][ (pc = "parsing" /\ line_num' = line_num + 1) =>
          LET n == Len(file_data.readings)
              tag == Split(line')[1]
          IN  /\ Len(file_data'.readings) >= n
              /\ SubSeq(file_data'.readings, 1, n) = file_data.readings
              /\ Len(file_data'.readings) > n =>
                     /\ Len(file_data'.readings) = n + 1
                     /\ tag = Tag030
                     /\ file_data'.readings[n + 1].mpan = current_mpan[1]
                     /\ file_data'.readings[n + 1].meter_serial =
                            current_meter_serial[1]
                     /\ file_data'.readings[n + 1].meter_type =
                            current_meter_type
              /\ (line' # <<>> /\ tag \in {TagZHV, TagZPT, Tag030}) =>
                     UNCHANGED <<current_mpan, current_meter_serial,
                                 current_meter_type>>
              /\ (line' # <<>> /\ tag = Tag028 /\ pc' = "parsing") =>
                     /\ current_meter_serial' = Some(Strip(Split(line')[2]))
                     /\ current_meter_type' = Some(Strip(Split(line')[3]))
                     /\ UNCHANGED current_mpan ]_vars

\* After the candidate of line 3 was emitted under MpanA, Serial1 and type S,
\* the 026 record of MpanB was read on line 4: the context is MpanB with no
\* meter, and the candidate is as it was emitted.
C24_Witness ==
    /\ pc = "parsing"
    /\ line_num = 4
    /\ LastTag = Tag026
    /\ current_mpan = Some(MpanB)
    /\ current_meter_serial = None
    /\ Len(file_data.readings) = 1
    /\ file_data.readings[1].mpan = MpanA
    /\ file_data.readings[1].meter_serial = Serial1
    /\ file_data.readings[1].meter_type = Some(TypeS)

(***************************************************************************)
(* C25. Every Meter stored when an import was called is stored unchanged,   *)
(* meter_type included, during and after the import; a Meter the import     *)
(* created has the meter_type of the first candidate of the file that       *)
(* names its MPAN and serial number.                                        *)
(***************************************************************************)
\* The MPAN of the MeterPoint of a Meter.
MpanOf(d, m) == (CHOOSE x \in d.MeterPoint : x.id = m.meter_point).mpan

\* The candidates of the file that name the MPAN and serial number of m.
CandidatesOf(d, m) ==
    {i \in 1..Len(file_data.readings) :
         /\ file_data.readings[i].mpan = MpanOf(d, m)
         /\ file_data.readings[i].meter_serial = m.serial_number}

C25_MeterTypeKept ==
    /\ \A m \in pre.Meter : m \in db.Meter
    /\ (Finished /\ outcome.status = "returned") =>
           \A m \in db.Meter \ pre.Meter :
               /\ CandidatesOf(db, m) # {}
               /\ \E i \in CandidatesOf(db, m) :
                      /\ \A j \in CandidatesOf(db, m) : i <= j
                      /\ file_data.readings[i].meter_type = Some(m.meter_type)

\* An import whose 028 record gives type D to a Meter stored with type S
\* has committed a new Reading of that Meter, which is still of type S.
C25_Witness ==
    /\ Finished
    /\ outcome.status = "returned"
    /\ outcome.count = 1
    /\ \E m \in pre.Meter :
           /\ m.meter_type = TypeS
           /\ m \in db.Meter
           /\ CandidatesOf(pre, m) # {}
           /\ \A i \in CandidatesOf(pre, m) :
                  file_data.readings[i].meter_type = Some(TypeD)
           /\ \E r \in db.Reading \ pre.Reading : r.meter = m.id

(***************************************************************************)
(* C26. The store never holds two MeterPoints of one mpan nor two Meters    *)
(* of one (meter_point, serial_number). After a committed import the        *)
(* MeterPoints are those of the MPANs stored before and of the MPANs of     *)
(* the candidates, one each, and the Meters those of the (mpan, serial)     *)
(* pairs stored before and of the candidates, one each: a pair met again    *)
(* adds no row, and one serial under two MPANs makes two rows.              *)
(***************************************************************************)
CandidateMpans ==
    {file_data.readings[i].mpan : i \in 1..Len(file_data.readings)}

CandidateMeters ==
    {<<file_data.readings[i].mpan, file_data.readings[i].meter_serial>> :
         i \in 1..Len(file_data.readings)}

StoreMpans(d) == {x.mpan : x \in d.MeterPoint}

StoreMeters(d) == {<<MpanOf(d, m), m.serial_number>> : m \in d.Meter}

C26_PointsAndMetersUnique ==
    /\ \A a, b \in db.MeterPoint : a.mpan = b.mpan => a = b
    /\ \A a, b \in db.Meter :
           (a.meter_point = b.meter_point /\ a.serial_number = b.serial_number)
               => a = b
    /\ \A m \in db.Meter : \E x \in db.MeterPoint : x.id = m.meter_point
    /\ (Finished /\ outcome.status = "returned") =>
           /\ pre.MeterPoint \subseteq db.MeterPoint
           /\ pre.Meter \subseteq db.Meter
           /\ StoreMpans(db) = StoreMpans(pre) \cup CandidateMpans
           /\ StoreMeters(db) = StoreMeters(pre) \cup CandidateMeters

\* Serial1 was imported under MpanA, then under MpanB: two MeterPoints and
\* two Meters of the same serial number.
C26_Witness ==
    /\ Finished
    /\ outcome.status = "returned"
    /\ Cardinality(pre.Meter) = 1
    /\ Cardinality(db.MeterPoint) = 2
    /\ Cardinality(db.Meter) = 2
    /\ \A m \in db.Meter : m.serial_number = Serial1
    /\ \E a, b \in db.Meter : a.meter_point # b.meter_point

(***************************************************************************)
(* C27. No step of the import path removes or changes a row of the store:   *)
(* every FlowFile, MeterPoint, Meter and Reading stays, field for field.    *)
(* A step adds at most one FlowFile, which has the filename of the call,    *)
(* the file_reference of the header and, as record_count, the count         *)
(* returned.                                                                *)
(***************************************************************************)
C27_ImportOnlyAdds ==
    [][ /\ db.FlowFile \subseteq db'.FlowFile
        /\ db.MeterPoint \subseteq db'.MeterPoint
        /\ db.Meter \subseteq db'.Meter
        /\ db.Reading \subseteq db'.Reading
        /\ Cardinality(db'.FlowFile \ db.FlowFile) <= 1
        /\ \A f \in db'.FlowFile \ db.FlowFile :
               /\ f.filename = cur.filename
               /\ f.file_reference =
                      IF file_data.header # None
                      THEN file_data.header[1].file_reference ELSE <<>>
               /\ outcome'.status = "returned"
               /\ f.record_count = outcome'.count ]_vars

\* An import of two new readings was committed on a store that held one
\* FlowFile with one Reading: the store holds both FlowFiles, with counts
\* 1 and 2, and the three Readings.
C27_Witness ==
    /\ Finished
    /\ outcome.status = "returned"
    /\ outcome.count = 2
    /\ Cardinality(pre.FlowFile) = 1
    /\ \A f \in pre.FlowFile : f.record_count = 1 /\ f \in db.FlowFile
    /\ Cardinality(db.FlowFile) = 2
    /\ pre.Reading \subseteq db.Reading
    /\ Cardinality(db.Reading) = 3

\* The MPANs, the meters and the reading triples the candidates of process p
\* name.
KeysOf(p) ==
    LET rs == racers[p].file_data.readings
    IN  {<<rs[i].mpan>> : i \in 1..Len(rs)}
        \cup {<<rs[i].mpan, rs[i].meter_serial>> : i \in 1..Len(rs)}
        \cup {<<rs[i].mpan, rs[i].meter_serial, rs[i].register_id,
                rs[i].reading_date>> : i \in 1..Len(rs)}

\* Both processes ended imports of files of different names whose values fit
\* the column and whose candidates share a key.
SharedKeyRace ==
    /\ Transacted(1) /\ Transacted(2)
    /\ Storable(1) /\ Storable(2)
    /\ racers[1].filename # racers[2].filename
    /\ KeysOf(1) \cap KeysOf(2) # {}

(***************************************************************************)
(* C28, as stated: when two imports of files of different names run at the  *)
(* same time and their candidates share an MPAN, a meter or a reading       *)
(* triple, neither import fails, the store holds one row per key            *)
(* afterwards, and every new Reading is counted by exactly one of the two.  *)
(***************************************************************************)
C28_SharedKeyRaceTolerated ==
    SharedKeyRace =>
        /\ Committed(1) /\ Committed(2)
        /\ \A T \in {"MeterPoint", "Meter", "Reading"} :
               \A a, b \in db[T] : SameKey(T, a, b) => a = b
        /\ racers[1].outcome.count + racers[2].outcome.count =
               Cardinality(db.Reading \ pre.Reading)

(***************************************************************************)
(* C29. After an import_file call on an existing file, of a filename not    *)
(* imported before, has raised (parse error, no readings or persistence     *)
(* error), the store holds no FlowFile of that filename; the next call on   *)
(* an existing file of that filename passes the duplicate check and goes    *)
(* on to parse the file.                                                    *)
(***************************************************************************)
\* The last call failed on a file whose name was free.
FailedImport ==
    /\ Finished /\ OnExistingFile /\ ~AlreadyImported
    /\ outcome.status = "raised"

C29_FailedImportLeavesNoTrace ==
    /\ [](FailedImport =>
              \A f \in db.FlowFile : f.filename # cur.filename)
    /\ [][ ( /\ FailedImport
             /\ imports' = imports + 1
             /\ cur'.filename = cur.filename
             /\ PathExists(cur'.file_path) )
           => /\ outcome'.exc # "DuplicateFileError"
              /\ pc' = "parsing" ]_vars

\* The upload of a.uff, the first import, was answered 400 after a
\* persistence error or a parse error; the next import of a.uff returned 1.
C29_Witness ==
    /\ response.name = "a.uff" /\ response.call = 0 /\ response.status = 400
    /\ cleared = None
    /\ imports = 2
    /\ Finished
    /\ cur.filename = "a.uff"
    /\ outcome.status = "returned"
    /\ outcome.count = 1
    /\ \E f \in db.FlowFile : f.filename = "a.uff"

(***************************************************************************)
(* C30, as stated: an upload is answered 201 only when the import it        *)
(* triggered returned and committed the FlowFile the answer carries, a      *)
(* FlowFile of the uploaded name that the store did not hold before; an     *)
(* upload whose import raised is answered 400 with no FlowFile.             *)
(***************************************************************************)
\* The upload has been answered and its import is the last call made.
UploadAnswered ==
    /\ response.stage = "answered"
    /\ validate_file(response.name)
    /\ imports = response.call + 1
    /\ cur.filename = response.name

C30_UploadCreatedOnlyOnCommit ==
    UploadAnswered =>
        /\ response.status = 201 =>
               /\ outcome.status = "returned"
               /\ response.flow_file # None
               /\ response.flow_file[1].filename = response.name
               /\ response.flow_file[1] \notin pre.FlowFile
        /\ outcome.status = "raised" =>
               /\ response.status = 400
               /\ response.flow_file = None

====
